---- MODULE Spec2Model ----
(***************************************************************************)
(* Model of the CBC Casper message library: messages and their dependency  *)
(* relation (message.rs), justifications and latest messages               *)
(* (justification.rs) and the validator state (validator.rs).              *)
(*                                                                         *)
(* Weights are f32/f64 in the program.  The model keeps integer weights    *)
(* and the one special value the admission path produces itself,           *)
(* U::INFINITY (the weight of a validator with no entry in the map), with  *)
(* the IEEE rule x + inf = inf.                                            *)
(***************************************************************************)
EXTENDS Integers, Sequences, FiniteSets, TLC

VARIABLES
    justification,     \* Justification(Vec<Message>): the vector being filled
    state,             \* validator::State: the five fields of the struct
    last,              \* the observed call: [op, arg, ret, j, st] with the
                       \* justification and the State it was made on
    admitted,          \* history: messages passed to LatestMsgs::update by an admission
    inclusion_weight,  \* history: sender -> its weight when it entered equivocators
    slashed_in,        \* history: senders that entered equivocators in faulty_insert_with_slash
    dep_lhs, dep_rhs,  \* a.depends(b): the two messages
    dep_result,        \* <<>> before the call, <<the value returned>> after
    eq_result,         \* <<>> or <<a.equivocates(b), b.equivocates(a)>>
    circ_result,       \* <<>> or <<a.is_circular(b)>>
    new_lhs, new_rhs,  \* Message::new: the arguments of two calls
    built,             \* <<>> or [a, b: the two messages built, eq: a == b]
    ghost_latest,      \* Block::ghost: the blocks of the latest honest messages
    ghost_weights,     \* Block::ghost: senders_weights
    ghost_keys,        \* the order in which the HashMap of parse_blockchains
                       \* iterates over its keys
    ghost_order,       \* the order in which a HashSet of blocks is iterated:
                       \* a rank of the senders, <<>> before the call
    ghost_result,      \* <<>> before the call, <<the Option returned>> after
    ghost_endorsers,   \* <<>> or, after a call that is followed through its
                       \* memo: what b_in_lms_senders holds at the end and the
                       \* referred_senders pick_heaviest used for each block
    chain,             \* the block messages built so far, in the order of
                       \* their creation
    chain_state,       \* the State the calls of from_msgs hand on
    oracle_target,     \* the block the safety oracles are asked for
    oracle_thr,        \* the safety_oracle_threshold
    oracle_out,        \* <<>> before a call, <<the set safety_oracles
                       \* returned on chain_state>> after
    oracle_prev,       \* oracle_out before the last message was built
    round_votes,       \* the votes of the validators of the round robin, one
                       \* for each validator
    round_states,      \* the State of each validator of the round robin
    round_sent,        \* the number of messages sent in the round robin
    from_estimator,    \* the estimator from_msgs is called with
    from_state,        \* the State the calls of from_msgs are made on
    from_count,        \* the number of calls of from_msgs made
    from_call,         \* the last call of from_msgs: what it was given, the
                       \* State it was made on and what it returned
    hash_map,          \* the map a Weights holds: validator -> weight
    weights_call,      \* the last call made on the Weights: the map before it
                       \* and what it returned
    lm_latest_msgs,    \* a LatestMsgs on its own: validator -> set of messages
    lm_queue,          \* the queue of LatestMsgs::from(j) while it runs
    lm_j,              \* <<>> or <<the vector of the justification from() is
                       \* working on>>
    lm_update,         \* the last call of update on lm_latest_msgs: its
                       \* message, the map before it and the value returned
    par_call,          \* <<>> or <<lhs, rhs>> of a call of depends followed
                       \* worker by worker
    par_visited,       \* the visited set behind the lock
    par_filter,        \* message -> number of workers about to test it in filter
    par_any,           \* message -> number of workers that passed the filter
                       \* with it and are about to enter the closure of any
    par_traversed,     \* message -> number of calls of recurse made on it
    par_found,         \* a worker found rhs in a justification
    sh_arcs,           \* the HashMaps behind the Arcs, by allocation
    sh_states,         \* the States, each with the allocation its Weights points to
    sh_justifications, \* the Justification filled through each State
    sh_last            \* the last call made through one of the States

vars == <<justification, state, last, admitted, inclusion_weight, slashed_in,
          dep_lhs, dep_rhs, dep_result, eq_result, circ_result,
          new_lhs, new_rhs, built,
          ghost_latest, ghost_weights, ghost_keys, ghost_order, ghost_result,
          ghost_endorsers,
          chain, chain_state, oracle_target, oracle_thr, oracle_out, oracle_prev,
          round_votes, round_states, round_sent,
          from_estimator, from_state, from_count, from_call,
          hash_map, weights_call,
          lm_latest_msgs, lm_queue, lm_j, lm_update,
          par_call, par_visited, par_filter, par_any, par_traversed, par_found,
          sh_arcs, sh_states, sh_justifications, sh_last>>

admission_vars == <<justification, state, last, admitted, inclusion_weight,
                    slashed_in>>

depends_vars == <<dep_lhs, dep_rhs, dep_result, eq_result, circ_result>>

identity_vars == <<new_lhs, new_rhs, built>>

ghost_vars == <<ghost_latest, ghost_weights, ghost_keys, ghost_order, ghost_result,
                ghost_endorsers>>

oracle_vars == <<chain, chain_state, oracle_target, oracle_thr, oracle_out,
                 oracle_prev>>

round_vars == <<round_votes, round_states, round_sent>>

from_vars == <<from_estimator, from_state, from_count, from_call>>

weights_vars == <<hash_map, weights_call>>

latest_vars == <<lm_latest_msgs, lm_queue, lm_j, lm_update>>

par_vars == <<par_call, par_visited, par_filter, par_any, par_traversed, par_found>>

share_vars == <<sh_arcs, sh_states, sh_justifications, sh_last>>

-----------------------------------------------------------------------------
(* Bounds of the model *)

MaxThr == 2
MaxWeight == 2
MaxBatch == 2
MaxJustLen == 2
MaxDepth == 2

(* U::INFINITY, as a number larger than every finite sum the model forms *)
INFINITY == 1000

Validators == {0, 1}
Estimates == {0, 1}

-----------------------------------------------------------------------------
(* message.rs *)

\* Message::new(sender, justification, estimate): the record behind the Arc.
\* A message is identified by its content (sender, estimate and the set of the
\* justification's messages).
Message_new(sender, just, estimate) ==
    [sender |-> sender, estimate |-> estimate, justification |-> just]

\* VoteCount::create_vote_msg(sender, vote): a message with an empty justification
create_vote_msg(sender, vote) == Message_new(sender, {}, vote)

\* The messages of the tests of justifications.rs: two competing votes per
\* validator and messages built on top of them.
v0       == create_vote_msg(0, 0)
v0_prime == create_vote_msg(0, 1)
v1       == create_vote_msg(1, 1)
v1_prime == create_vote_msg(1, 0)
m0       == Message_new(0, {v0}, 0)
v2       == create_vote_msg(2, 1)
v2_prime == create_vote_msg(2, 0)

Messages == {v0, v0_prime, v1, v1_prime, m0}

\* The message of detect_equivocation: validator 0 builds on all the votes, its
\* own two competing votes included
m0_absorbed == Message_new(0, {v0, v0_prime}, 0)

ThresholdMessages == {v0, v0_prime, v1, v1_prime, m0_absorbed}

\* The votes of the tests of sort_by_faultweight: two competing votes of each
\* of three validators
SortedMessages == {v0, v0_prime, v1, v1_prime, v2, v2_prime}

\* The order of the message ids (hashes of the serialized content): a total
\* order unrelated to the structure of the messages, with what the tests of
\* validator.rs assert of it: id(vote(2, false)) < id(vote(0, true)) <
\* id(vote(1, false)).
HashOrder == <<v2_prime, m0, v0_prime, v0, v1_prime, v1, v2>>

getid(m) == CHOOSE i \in 1..Len(HashOrder) : HashOrder[i] = m

\* depends::recurse(lhs, rhs, visited): returns <<found, visited>>.  The
\* justification entries are explored one after the other; an entry already in
\* visited is skipped, an entry explored is first put in visited.
RECURSIVE recurse(_, _, _)
RECURSIVE recurse_any(_, _, _)
recurse_any(todo, rhs, visited) ==
    IF todo = {} THEN <<FALSE, visited>>
    ELSE LET lhs_prime == CHOOSE x \in todo : TRUE
         IN  IF lhs_prime \in visited
             THEN recurse_any(todo \ {lhs_prime}, rhs, visited)
             ELSE LET r == recurse(lhs_prime, rhs, visited \cup {lhs_prime})
                  IN  IF r[1] THEN r
                      ELSE recurse_any(todo \ {lhs_prime}, rhs, r[2])

recurse(lhs, rhs, visited) ==
    IF rhs \in lhs.justification THEN <<TRUE, visited>>
    ELSE recurse_any(lhs.justification, rhs, visited)

\* depends without the descent: only the justification of self is searched
depends_direct(self, rhs) == rhs \in self.justification

\* CasperMsg::depends(self, rhs)
depends(self, rhs) == recurse(self, rhs, {})[1]

\* equivocates that looks for self below rhs only
equivocates_one_sided(self, rhs) ==
    /\ self # rhs
    /\ self.sender = rhs.sender
    /\ ~depends(rhs, self)

\* CasperMsg::equivocates(self, rhs)
equivocates(self, rhs) ==
    /\ self # rhs
    /\ self.sender = rhs.sender
    /\ ~depends(rhs, self)
    /\ ~depends(self, rhs)

\* is_circular with one of the two directions
is_circular_one_way(self, rhs) == depends(self, rhs)

\* CasperMsg::is_circular(self, rhs)
is_circular(self, rhs) == depends(rhs, self) /\ depends(self, rhs)

-----------------------------------------------------------------------------
(* message.rs: the id of a message.  Message(Arc<ProtoMsg>, Hashed): the   *)
(* proto message with its justification as the vector it was filled as,    *)
(* and the id kept beside it.                                              *)

\* Vec::sort_unstable on ids
RECURSIVE sort_unstable(_)
sort_unstable(seq) ==
    IF seq = <<>> THEN <<>>
    ELSE LET i == CHOOSE k \in 1..Len(seq) : \A l \in 1..Len(seq) : seq[k] <= seq[l]
             rest == [k \in 1..(Len(seq) - 1) |-> IF k < i THEN seq[k] ELSE seq[k + 1]]
         IN  <<seq[i]>> \o sort_unstable(rest)

\* the serialization without j.sort_unstable()
serialize_unsorted(proto) ==
    <<proto.sender, proto.estimate,
      [i \in 1..Len(proto.justification) |-> proto.justification[i].id]>>

\* Serialize for ProtoMsg: sender, estimate and the sorted ids of the justification
serialize(proto) ==
    LET j == [i \in 1..Len(proto.justification) |-> proto.justification[i].id]
    IN  <<proto.sender, proto.estimate, sort_unstable(j)>>

\* The hash of a serialization, as a one-to-one numbering of the serializations
pair(x, y) == ((x + y) * (x + y + 1)) \div 2 + y

RECURSIVE encode_ids(_)
encode_ids(ids) ==
    IF ids = <<>> THEN 0 ELSE 1 + pair(Head(ids), encode_ids(Tail(ids)))

Hashed(ser) ==
    1 + ser[1] + Cardinality(Validators)
                 * (ser[2] + Cardinality(Estimates) * encode_ids(ser[3]))

\* Id::getid of a ProtoMsg: the hash of its serialization
ProtoMsg_getid(proto) == Hashed(serialize(proto))

\* Message::new(sender, justification, estimate, id), id an Option: <<>> is
\* None and <<x>> is Some(x)
Message_new_with_id(sender, just, estimate, id) ==
    LET proto == [sender |-> sender, justification |-> just, estimate |-> estimate]
    IN  [proto |-> proto,
         id |-> IF id = <<>> THEN ProtoMsg_getid(proto) ELSE id[1]]

\* PartialEq for Message: the same Arc (so the same id) or the same id
Message_eq(a, b) == a.id = b.id

-----------------------------------------------------------------------------
(* validator.rs: Weights *)

\* Weights::weight(validator): the weight, or NotFound
weight_found(weights, validator) == validator \in DOMAIN weights

\* .weight(sender).unwrap_or(ZERO): an unknown validator weighs nothing
weight_or_zero(weights, validator) ==
    IF validator \in DOMAIN weights THEN weights[validator] ELSE 0

\* .weight(sender).unwrap_or(U::INFINITY)
weight_or_infinity(weights, validator) ==
    IF weight_found(weights, validator) THEN weights[validator] ELSE INFINITY

\* U + U, with x + inf = inf
WAdd(a, b) == IF a = INFINITY \/ b = INFINITY THEN INFINITY ELSE a + b

-----------------------------------------------------------------------------
(* justification.rs: Justification *)

Range(seq) == {seq[i] : i \in 1..Len(seq)}

\* Justification::contains(msg)
contains(j, msg) == msg \in Range(j)

\* insert that pushes before it looks
insert_push_first(j, msg) == <<Append(j, msg), msg \notin Range(j)>>

\* Justification::insert(msg): <<the vector, inserted?>>
insert(j, msg) ==
    IF contains(j, msg) THEN <<j, FALSE>> ELSE <<Append(j, msg), TRUE>>

-----------------------------------------------------------------------------
(* justification.rs: LatestMsgs, a map validator -> set of messages *)

LatestMsgs_empty == <<>>

\* HashMap::insert(k, v)
map_insert(map, k, v) ==
    [x \in DOMAIN map \cup {k} |-> IF x = k THEN v ELSE map[x]]

\* update_step that leaves the set alone when old and new are independent
update_step_no_tip(msgs, acc, old_msg, new_msg) ==
    IF ~depends(new_msg, old_msg) /\ ~depends(old_msg, new_msg)
    THEN <<msgs, acc>>
    ELSE IF ~depends(new_msg, old_msg)
    THEN <<msgs, acc>>
    ELSE IF old_msg \in msgs
         THEN <<(msgs \ {old_msg}) \cup {new_msg},
                (new_msg \notin (msgs \ {old_msg})) \/ acc>>
         ELSE <<msgs, acc>>

\* update_step that keeps the old message beside the newer one
update_step_keep_old(msgs, acc, old_msg, new_msg) ==
    IF ~depends(new_msg, old_msg) /\ depends(old_msg, new_msg)
    THEN <<msgs, acc>>
    ELSE <<msgs \cup {new_msg}, (new_msg \notin msgs) \/ acc>>

\* One step of the fold of LatestMsgs::update over the old messages of the
\* sender: msgs is the sender's set in the map, acc the value folded so far.
\* Returns <<msgs, acc>>.
update_step(msgs, acc, old_msg, new_msg) ==
    LET new_independent_from_old == ~depends(new_msg, old_msg) IN
    IF new_independent_from_old /\ ~depends(old_msg, new_msg)
    THEN \* equivocation, old and new do not depend on each other
         <<msgs \cup {new_msg}, (new_msg \notin msgs) \/ acc>>
    ELSE IF new_independent_from_old
    THEN \* new actually older than old
         <<msgs, acc>>
    ELSE \* new newer than old: msgs.remove(old_msg) && msgs.insert(new_msg)
         IF old_msg \in msgs
         THEN <<(msgs \ {old_msg}) \cup {new_msg},
                (new_msg \notin (msgs \ {old_msg})) \/ acc>>
         ELSE <<msgs, acc>>

\* The fold itself, over the clone of the sender's set taken before the call
RECURSIVE update_fold(_, _, _, _)
update_fold(todo, msgs, acc, new_msg) ==
    IF todo = {} THEN <<msgs, acc>>
    ELSE LET old_msg == CHOOSE x \in todo : TRUE
             r == update_step(msgs, acc, old_msg, new_msg)
         IN  update_fold(todo \ {old_msg}, r[1], r[2], new_msg)

\* LatestMsgs::update(new_msg): <<the map, the value returned>>
LatestMsgs_update(latest, new_msg) ==
    LET sender == new_msg.sender IN
    IF sender \in DOMAIN latest
    THEN LET latest_msgs_from_sender == latest[sender]
             r == update_fold(latest_msgs_from_sender \ {new_msg},
                              latest_msgs_from_sender, FALSE, new_msg)
         IN  <<map_insert(latest, sender, r[1]), r[2]>>
    ELSE \* no message found for this validator, so new_msg is the latest
         <<map_insert(latest, sender, {new_msg}), TRUE>>

\* LatestMsgs::equivocate(msg_new)
equivocate(latest, msg_new) ==
    /\ msg_new.sender \in DOMAIN latest
    /\ \E m \in latest[msg_new.sender] : equivocates(m, msg_new)

\* from_latest_msgs without the test of the length: msgs.iter().next() of any set
from_latest_msgs_any_len(latest, equivocators) ==
    UNION { IF validator \in equivocators
            THEN {}
            ELSE {CHOOSE m \in latest[validator] : TRUE}
          : validator \in DOMAIN latest }

\* LatestMsgsHonest::from_latest_msgs(latest_msgs, equivocators)
from_latest_msgs(latest, equivocators) ==
    UNION { IF validator \in equivocators \/ Cardinality(latest[validator]) # 1
            THEN {}
            ELSE latest[validator]
          : validator \in DOMAIN latest }

-----------------------------------------------------------------------------
(* justification.rs: admission.  A call works on a pair                    *)
(* [j |-> the justification, st |-> the State] and returns the pair with   *)
(* the value returned in ret.                                              *)

\* the test of the budget with the weight alone
within_threshold_weight_only(validator_weight, st) == validator_weight <= st.thr

\* the test of the budget with < for <=
within_threshold_strict(validator_weight, st) ==
    WAdd(validator_weight, st.state_fault_weight) < st.thr

\* the test of the budget: validator_weight + state.state_fault_weight <= state.thr
within_threshold(validator_weight, st) ==
    WAdd(validator_weight, st.state_fault_weight) <= st.thr

\* state.latest_msgs.update(msg) on the State
state_latest_update(st, msg) ==
    [st EXCEPT !.latest_msgs = LatestMsgs_update(st.latest_msgs, msg)[1]]

\* the (true, false) arm that updates the latest messages and leaves
\* equivocators as it was
record_equivocation_unlisted(st, msg, validator_weight) ==
    state_latest_update(st, msg)

\* the (true, false) arm once the message is in the justification: update the
\* latest messages, add the sender to equivocators and, when it is new there,
\* add its weight to the fault weight
record_equivocation(st, msg, validator_weight) ==
    LET st1 == state_latest_update(st, msg) IN
    IF msg.sender \notin st1.equivocators
    THEN [st1 EXCEPT !.equivocators = @ \cup {msg.sender},
                     !.state_fault_weight = WAdd(@, validator_weight)]
    ELSE st1

\* the match of faulty_insert without the arm (true, true)
must_check_threshold_always(is_equivocation, already_in_equivocators) ==
    is_equivocation

\* the match of faulty_insert: the arm (true, false) is the one that has to check
\* that the threshold is not reached
must_check_threshold(is_equivocation, already_in_equivocators) ==
    is_equivocation /\ ~already_in_equivocators

\* Justification::faulty_insert(msg, state)
faulty_insert(c, msg) ==
    LET st == c.st
        is_equivocation == equivocate(st.latest_msgs, msg)
        sender == msg.sender
        validator_weight == weight_or_infinity(st.validators_weights, sender)
        already_in_equivocators == sender \in st.equivocators
        ins == insert(c.j, msg)
        success == ins[2]
    IN  IF ~must_check_threshold(is_equivocation, already_in_equivocators)
        THEN [j |-> ins[1],
              st |-> IF success THEN state_latest_update(st, msg) ELSE st,
              ret |-> success]
        ELSE IF within_threshold(validator_weight, st)
        THEN [j |-> ins[1],
              st |-> IF success THEN record_equivocation(st, msg, validator_weight)
                     ELSE st,
              ret |-> success]
        ELSE [j |-> c.j, st |-> st, ret |-> FALSE]

\* a slashing insert that refuses the equivocation its budget cannot absorb
faulty_insert_with_slash_budgeted(c, msg) ==
    LET st == c.st
        is_equivocation == equivocate(st.latest_msgs, msg)
        sender == msg.sender
        weight == weight_or_infinity(st.validators_weights, sender)
        st1 == IF is_equivocation
               THEN [st EXCEPT !.equivocators = @ \cup {sender},
                               !.validators_weights = map_insert(@, sender, 0)]
               ELSE st
        ins == insert(c.j, msg)
    IN  IF is_equivocation /\ ~within_threshold(weight, st)
        THEN [j |-> c.j, st |-> st, ret |-> FALSE]
        ELSE [j |-> ins[1], st |-> state_latest_update(st1, msg), ret |-> ins[2]]

\* Justification::faulty_insert_with_slash(msg, state)
faulty_insert_with_slash(c, msg) ==
    LET st == c.st
        is_equivocation == equivocate(st.latest_msgs, msg)
        sender == msg.sender
        st1 == IF is_equivocation
               THEN [st EXCEPT !.equivocators = @ \cup {sender},
                               !.validators_weights = map_insert(@, sender, 0)]
               ELSE st
        ins == insert(c.j, msg)
    IN  [j |-> ins[1], st |-> state_latest_update(st1, msg), ret |-> ins[2]]

-----------------------------------------------------------------------------
(* validator.rs: State *)

\* State::new(validators_weights, state_fault_weight, latest_msgs, thr, equivocators)
State_new(validators_weights, state_fault_weight, latest_msgs, thr, equivocators) ==
    [validators_weights |-> validators_weights,
     equivocators |-> equivocators,
     state_fault_weight |-> state_fault_weight,
     thr |-> thr,
     latest_msgs |-> latest_msgs]

\* the body of the fold without && self.equivocators.insert(sender)
State_update_one_recount(st, message) ==
    LET sender == message.sender
        weight == weight_or_infinity(st.validators_weights, sender)
        u == LatestMsgs_update(st.latest_msgs, message)
        st1 == [st EXCEPT !.latest_msgs = u[1]]
    IN  IF equivocate(st1.latest_msgs, message) /\ within_threshold(weight, st1)
        THEN <<[st1 EXCEPT !.equivocators = @ \cup {sender},
                           !.state_fault_weight = WAdd(@, weight)], u[2]>>
        ELSE <<st1, u[2]>>

\* the body of the fold that leaves the latest messages alone when the budget
\* would be crossed
State_update_one_refusing(st, message) ==
    LET sender == message.sender
        weight == weight_or_infinity(st.validators_weights, sender)
        u == LatestMsgs_update(st.latest_msgs, message)
        st1 == [st EXCEPT !.latest_msgs = u[1]]
    IN  IF equivocate(st1.latest_msgs, message)
        THEN IF within_threshold(weight, st1)
             THEN IF sender \notin st1.equivocators
                  THEN <<[st1 EXCEPT !.equivocators = @ \cup {sender},
                                     !.state_fault_weight = WAdd(@, weight)], u[2]>>
                  ELSE <<st1, u[2]>>
             ELSE <<st, FALSE>>
        ELSE <<st1, u[2]>>

\* The body of the fold of State::update for one message: <<the State, a>>
State_update_one(st, message) ==
    LET sender == message.sender
        weight == weight_or_infinity(st.validators_weights, sender)
        u == LatestMsgs_update(st.latest_msgs, message)
        st1 == [st EXCEPT !.latest_msgs = u[1]]
    IN  IF /\ equivocate(st1.latest_msgs, message)
           /\ within_threshold(weight, st1)
           /\ sender \notin st1.equivocators
        THEN <<[st1 EXCEPT !.equivocators = @ \cup {sender},
                           !.state_fault_weight = WAdd(@, weight)], u[2]>>
        ELSE <<st1, u[2]>>

\* State::update(messages): <<the State, the value returned>>
RECURSIVE State_update_fold(_, _, _)
State_update_fold(st, acc, messages) ==
    IF messages = <<>> THEN <<st, acc>>
    ELSE LET r == State_update_one(st, Head(messages))
         IN  State_update_fold(r[1], acc /\ r[2], Tail(messages))

State_update(st, messages) == State_update_fold(st, TRUE, messages)

\* The fault weight a message would introduce in the state, as the filter_map
\* of sort_by_faultweight computes it: <<kept?, weight>>.  A message that
\* equivocates and whose sender has no weight is dropped (.ok() of NotFound).
faultweight_of(st, message) ==
    LET sender == message.sender IN
    IF sender \notin st.equivocators /\ equivocate(st.latest_msgs, message)
    THEN IF weight_found(st.validators_weights, sender)
         THEN <<TRUE, st.validators_weights[sender]>>
         ELSE <<FALSE, 0>>
    ELSE <<TRUE, 0>>

\* the comparison by message id alone
sorts_before_by_id(st, a, b) == getid(a) < getid(b)

\* the comparison by descending weight, then by message id
sorts_before_descending(st, a, b) ==
    LET w0 == faultweight_of(st, a)[2]
        w1 == faultweight_of(st, b)[2]
    IN  IF w0 = w1 THEN getid(a) < getid(b) ELSE w0 > w1

\* The comparison of sort_unstable_by: by weight, then by message id
sorts_before(st, a, b) ==
    LET w0 == faultweight_of(st, a)[2]
        w1 == faultweight_of(st, b)[2]
    IN  IF w0 = w1 THEN getid(a) < getid(b) ELSE w0 < w1

\* State::sort_by_faultweight(messages): the vector of the messages kept, sorted
RECURSIVE sorted_seq(_, _)
sorted_seq(st, msgs) ==
    IF msgs = {} THEN <<>>
    ELSE LET first == CHOOSE a \in msgs : \A b \in msgs \ {a} : sorts_before(st, a, b)
         IN  <<first>> \o sorted_seq(st, msgs \ {first})

sort_by_faultweight(st, messages) ==
    sorted_seq(st, {m \in messages : faultweight_of(st, m)[1]})

\* Justification::faulty_inserts(msgs, state): ret is the set of the messages
\* for which faulty_insert returned true.  The order is computed once, on the
\* state before the first insertion.
\* the step that collects every message, admitted or not
faulty_inserts_step_keep_all(c, msg, acc, r) ==
    [c |-> [j |-> r.j, st |-> r.st, sorted |-> c.sorted,
            calls |-> Append(c.calls, <<msg, r.ret>>)],
     acc |-> acc \cup {msg}]

\* One step of the fold: r is what faulty_insert(msg, state) returned.  calls
\* is the history of the calls of faulty_insert made: <<message, value
\* returned>> in the order of the calls.
faulty_inserts_step(c, msg, acc, r) ==
    [c |-> [j |-> r.j, st |-> r.st, sorted |-> c.sorted,
            calls |-> Append(c.calls, <<msg, r.ret>>)],
     acc |-> IF r.ret THEN acc \cup {msg} ELSE acc]

\* the fold of faulty_inserts over the sorted vector, from the step made
RECURSIVE faulty_inserts_fold(_, _, _)
faulty_inserts_next(step, rest) == faulty_inserts_fold(step.c, rest, step.acc)

faulty_inserts_fold(c, sorted, acc) ==
    IF sorted = <<>>
    THEN [j |-> c.j, st |-> c.st, ret |-> acc, sorted |-> c.sorted,
          calls |-> c.calls]
    ELSE faulty_inserts_next(
            faulty_inserts_step(c, Head(sorted), acc, faulty_insert(c, Head(sorted))),
            Tail(sorted))

\* the fold started on the vector state.sort_by_faultweight(msgs) returned
faulty_inserts_sorted(c, sorted) ==
    faulty_inserts_fold([j |-> c.j, st |-> c.st, sorted |-> sorted, calls |-> <<>>],
                        sorted, {})

faulty_inserts(c, msgs) ==
    faulty_inserts_sorted(c, sort_by_faultweight(c.st, msgs))

-----------------------------------------------------------------------------
(* example/blockchain.rs: Block and the GHOST fork choice.  A Block is the *)
(* record of its ProtoBlock; prevblock is <<>> for None and <<b>> for      *)
(* Some(b).  An Option returned is <<>> for None and <<x>> for Some(x).    *)

MaxChain == 2

BlockSenders == 0..3

\* Block::new(prevblock, sender)
Block_new(prevblock, sender) == [prevblock |-> prevblock, sender |-> sender]

\* the genesis block of the tests: prevblock None, built by sender 0
genesis_block == Block_new(<<>>, 0)

\* the blocks built on the genesis block by chains of at most depth blocks
RECURSIVE BlocksUpTo(_)
BlocksUpTo(depth) ==
    IF depth = 0 THEN {genesis_block}
    ELSE LET below == BlocksUpTo(depth - 1)
         IN  below \cup { Block_new(<<p>>, s) : p \in below, s \in BlockSenders \ {0} }

Blocks == BlocksUpTo(MaxChain)

\* Block::id: the hash of the serialized ProtoBlock, here an injective code
RECURSIVE Block_id(_)
Block_id(block) ==
    IF block.prevblock = <<>> THEN block.sender
    ELSE Cardinality(BlockSenders) * (1 + Block_id(block.prevblock[1])) + block.sender

\* the while loop of Block::parse_blockchains
RECURSIVE parse_loop(_, _, _, _, _)
parse_loop(visited_parents, queue, genesis, referred_latest_blocks, latest_blocks) ==
    IF queue = <<>>
    THEN [visited |-> visited_parents, genesis |-> genesis,
          latest_blocks |-> latest_blocks]
    ELSE LET child == Head(queue)
             rest == Tail(queue)
             all_referred == /\ referred_latest_blocks = latest_blocks
                             /\ Len(rest) = 0
         IN  IF child.prevblock # <<>> /\ ~all_referred
             THEN LET parent == child.prevblock[1]
                      referred == IF child \in latest_blocks
                                  THEN referred_latest_blocks \cup {child}
                                  ELSE referred_latest_blocks
                  IN  IF parent \in DOMAIN visited_parents
                      THEN parse_loop([visited_parents EXCEPT ![parent] = @ \cup {child}],
                                      rest, genesis, referred, latest_blocks)
                      ELSE parse_loop(map_insert(visited_parents, parent, {child}),
                                      Append(rest, parent), genesis, referred,
                                      latest_blocks)
             ELSE parse_loop(visited_parents, rest, genesis \cup {child},
                             referred_latest_blocks, latest_blocks)

\* Block::parse_blockchains(latest_msgs, _): keys is the order in which the
\* HashMap visited_parents iterates over the blocks of the latest messages
parse_blockchains(keys) ==
    LET latest_blocks == Range(keys)
    IN  parse_loop([b \in latest_blocks |-> {}], keys, {}, {}, latest_blocks)

\* a collect_validators that never looks below the block nor at the block
collect_validators_none(block, visited, acc, latest_blocks) == acc

\* Block::collect_validators(block, visited, acc, latest_blocks, memo): the
\* memo holds what this function returned for a child and changes no result
RECURSIVE collect_validators(_, _, _, _)
collect_validators(block, visited, acc, latest_blocks) ==
    LET acc1 == IF block \in latest_blocks THEN acc \cup {block.sender} ELSE acc
    IN  IF block \notin DOMAIN visited \/ visited[block] = {}
        THEN acc1
        ELSE acc1 \cup UNION { collect_validators(child, visited, {}, latest_blocks) :
                                 child \in visited[block] }

\* SendersWeight::sum_weight_senders(senders)
RECURSIVE sum_weight_senders(_, _)
sum_weight_senders(weights, senders) ==
    IF senders = {} THEN 0
    ELSE LET s == CHOOSE x \in senders : TRUE
         IN  weights[s] + sum_weight_senders(weights, senders \ {s})

\* the step of the fold of Block::pick_heaviest over the blocks of a fork
pick_step(best, block, visited, weights, latest_blocks) ==
    IF best = <<>> \/ block \notin DOMAIN visited THEN <<>>
    ELSE LET b == best[1]
             weight == sum_weight_senders(weights,
                          collect_validators(block, visited, {}, latest_blocks))
             res == <<[block |-> <<block>>, weight |-> weight,
                       children |-> visited[block]]>>
         IN  IF weight > b.weight THEN res
             ELSE IF weight < b.weight THEN best
             ELSE IF b.block = <<>> THEN <<>>
             ELSE IF Block_id(b.block[1]) > Block_id(block) THEN res
             ELSE IF Block_id(b.block[1]) < Block_id(block) THEN best
             ELSE <<>>

\* the place of a block in the iteration of a HashSet<Block>: order ranks the
\* senders, and the blocks of one sender are iterated by the rank of their
\* prevblock
RECURSIVE Block_rank(_, _)
Block_rank(block, order) ==
    IF block.prevblock = <<>> THEN order[block.sender]
    ELSE Cardinality(BlockSenders) * (1 + Block_rank(block.prevblock[1], order))
            + order[block.sender]

\* blocks.iter().fold(init, ..): the blocks are taken in the order in which
\* the HashSet iterates
RECURSIVE pick_fold(_, _, _, _, _, _)
pick_fold(best, todo, visited, weights, latest_blocks, order) ==
    IF todo = {} THEN best
    ELSE LET block == CHOOSE x \in todo :
                         \A y \in todo : Block_rank(x, order) <= Block_rank(y, order)
         IN  pick_fold(pick_step(best, block, visited, weights, latest_blocks),
                       todo \ {block}, visited, weights, latest_blocks, order)

\* Block::pick_heaviest(blocks, visited, weights, latest_blocks, memo)
RECURSIVE pick_heaviest(_, _, _, _, _)
pick_heaviest(blocks, visited, weights, latest_blocks, order) ==
    LET init == <<[block |-> <<>>, weight |-> 0, children |-> {}]>>
        heaviest_child ==
            IF Cardinality(blocks) = 1
            THEN LET block == CHOOSE x \in blocks : TRUE
                 IN  IF block \in DOMAIN visited
                     THEN <<[block |-> <<block>>, weight |-> 0,
                             children |-> visited[block]]>>
                     ELSE <<>>
            ELSE IF Cardinality(blocks) > 1
            THEN pick_fold(init, blocks, visited, weights, latest_blocks, order)
            ELSE init
    IN  IF heaviest_child = <<>> THEN <<>>
        ELSE IF heaviest_child[1].children = {} THEN heaviest_child
        ELSE pick_heaviest(heaviest_child[1].children, visited, weights, latest_blocks,
                           order)

\* Block::ghost(latest_msgs, finalized_msg, senders_weights)
ghost(keys, order, senders_weights) ==
    LET parsed == parse_blockchains(keys)
        picked == pick_heaviest(parsed.genesis, parsed.visited, senders_weights,
                                parsed.latest_blocks, order)
    IN  IF picked = <<>> THEN <<>> ELSE picked[1].block

\* The fork choice with its memo b_in_lms_senders followed: lms is
\* [memo |-> the map block -> senders behind the lock,
\*  used |-> the pairs <<block, referred_senders>> pick_heaviest worked with]

\* the first block of a set in the order in which the HashSet iterates
first_block(todo, order) ==
    CHOOSE x \in todo : \A y \in todo : Block_rank(x, order) <= Block_rank(y, order)

\* Block::collect_validators with the memo: [acc |-> the senders, memo |-> ..]
RECURSIVE collect_validators_memo(_, _, _, _, _, _)
RECURSIVE collect_children_memo(_, _, _, _, _, _)
\* a step that memoizes the accumulator for the child
collect_child_memo_joined(child, todo, visited, acc, latest_blocks, order, endorsers) ==
    collect_children_memo(todo \ {child}, visited, acc \cup endorsers.acc, latest_blocks,
                          map_insert(endorsers.memo, child, acc \cup endorsers.acc), order)

\* the step of the fold over the children: endorsers is what the call for the
\* child returned; it is memoized and joined to acc
collect_child_memo(child, todo, visited, acc, latest_blocks, order, endorsers) ==
    collect_children_memo(todo \ {child}, visited, acc \cup endorsers.acc, latest_blocks,
                          map_insert(endorsers.memo, child, endorsers.acc), order)

collect_children_memo(todo, visited, acc, latest_blocks, memo, order) ==
    IF todo = {} THEN [acc |-> acc, memo |-> memo]
    ELSE collect_child_memo(first_block(todo, order), todo, visited, acc, latest_blocks,
                            order,
                            collect_validators_memo(first_block(todo, order), visited,
                                                    {}, latest_blocks, memo, order))

collect_validators_memo(block, visited, acc, latest_blocks, memo, order) ==
    LET acc1 == IF block \in latest_blocks THEN acc \cup {block.sender} ELSE acc
    IN  IF block \notin DOMAIN visited \/ visited[block] = {}
        THEN [acc |-> acc1, memo |-> memo]
        ELSE collect_children_memo(visited[block], visited, acc1, latest_blocks, memo,
                                   order)

\* referred_senders of pick_heaviest: the memo's entry for the block when it
\* has one, what collect_validators returns otherwise
referred_senders_memo(block, visited, latest_blocks, memo, order) ==
    IF block \in DOMAIN memo
    THEN [acc |-> memo[block], memo |-> memo]
    ELSE collect_validators_memo(block, visited, {}, latest_blocks, memo, order)

\* the comparison of the fold of pick_heaviest, the weight of the block given
pick_compare(b, block, children, weight) ==
    LET res == <<[block |-> <<block>>, weight |-> weight, children |-> children]>>
    IN  IF weight > b.weight THEN res
        ELSE IF weight < b.weight THEN <<b>>
        ELSE IF b.block = <<>> THEN <<>>
        ELSE IF Block_id(b.block[1]) > Block_id(block) THEN res
        ELSE IF Block_id(b.block[1]) < Block_id(block) THEN <<b>>
        ELSE <<>>

\* the step of the fold with the memo, referred being what
\* referred_senders_memo returned for the block
pick_step_memo(best, block, visited, weights, lms, referred) ==
    [best |-> pick_compare(best[1], block, visited[block],
                           sum_weight_senders(weights, referred.acc)),
     lms |-> [memo |-> referred.memo,
              used |-> lms.used \cup {<<block, referred.acc>>}]]

\* the fold of pick_heaviest over the blocks of a fork, with the memo
RECURSIVE pick_fold_memo(_, _, _, _, _, _)
pick_fold_memo(step, todo, visited, weights, latest_blocks, order) ==
    IF todo = {} THEN step
    ELSE IF step.best = <<>> \/ first_block(todo, order) \notin DOMAIN visited
    THEN pick_fold_memo([best |-> <<>>, lms |-> step.lms],
                        todo \ {first_block(todo, order)}, visited, weights,
                        latest_blocks, order)
    ELSE pick_fold_memo(
            pick_step_memo(step.best, first_block(todo, order), visited, weights,
                           step.lms,
                           referred_senders_memo(first_block(todo, order), visited,
                                                 latest_blocks, step.lms.memo, order)),
            todo \ {first_block(todo, order)}, visited, weights, latest_blocks, order)

\* Block::pick_heaviest with the memo: [best |-> the Option returned, lms |-> ..]
RECURSIVE pick_heaviest_memo(_, _, _, _, _, _)
\* the end of pick_heaviest: the base case or the call on the children
pick_heaviest_descend(heaviest_child, visited, weights, latest_blocks, order) ==
    IF heaviest_child.best = <<>> THEN heaviest_child
    ELSE IF heaviest_child.best[1].children = {} THEN heaviest_child
    ELSE pick_heaviest_memo(heaviest_child.best[1].children, visited, weights,
                            latest_blocks, heaviest_child.lms, order)

pick_heaviest_memo(blocks, visited, weights, latest_blocks, lms, order) ==
    LET init == <<[block |-> <<>>, weight |-> 0, children |-> {}]>>
    IN  pick_heaviest_descend(
            IF Cardinality(blocks) = 1
            THEN LET block == CHOOSE x \in blocks : TRUE
                 IN  [best |-> IF block \in DOMAIN visited
                               THEN <<[block |-> <<block>>, weight |-> 0,
                                       children |-> visited[block]]>>
                               ELSE <<>>,
                      lms |-> lms]
            ELSE IF Cardinality(blocks) > 1
            THEN pick_fold_memo([best |-> init, lms |-> lms], blocks, visited, weights,
                                latest_blocks, order)
            ELSE [best |-> init, lms |-> lms],
            visited, weights, latest_blocks, order)

\* Block::ghost with the memo it creates: [block |-> the Option returned,
\* lms |-> the memo at the end and the referred_senders used]
ghost_memo(keys, order, senders_weights) ==
    LET parsed == parse_blockchains(keys)
        picked == pick_heaviest_memo(parsed.genesis, parsed.visited, senders_weights,
                                     parsed.latest_blocks,
                                     [memo |-> <<>>, used |-> {}], order)
    IN  [block |-> IF picked.best = <<>> THEN <<>> ELSE picked.best[1].block,
         lms |-> picked.lms]

\* Estimate for Block, mk_estimate(latest_msgs, finalized_msg, senders_weights,
\* incomplete_block): the incomplete block with the prevblock ghost chose
mk_estimate(keys, order, senders_weights, incomplete_block) ==
    Block_new(ghost(keys, order, senders_weights), incomplete_block.sender)

\* the blocks of the latest honest messages of a State
latest_honest_blocks(st) ==
    {m.estimate : m \in from_latest_msgs(st.latest_msgs, st.equivocators)}

\* CasperMsg::from_msgs(sender, new_msgs, sender_state, external_data) once
\* justification.faulty_inserts(new_msgs, sender_state) returned inserted and
\* mk_estimate returned estimate on the latest honest messages of the State
\* it left, <<>> for an Err and <<e>> for Ok(e).  Returns <<>> for the Err,
\* <<the message and the State>> for the Ok.  success is that a message of
\* new_msgs was admitted
from_msgs_inserted(sender, inserted, new_msgs, estimate) ==
    IF inserted.ret = {} /\ new_msgs # {} THEN <<>>
    ELSE IF estimate = <<>> THEN <<>>
    ELSE <<[msg |-> Message_new(sender, Range(inserted.j), estimate[1]),
            sender_state |-> inserted.st]>>

\* Block::is_member(self, rhs): self is rhs or a member of the chain of the
\* prevblock of rhs
RECURSIVE is_member(_, _)
is_member(self, rhs) ==
    \/ self = rhs
    \/ /\ rhs.prevblock # <<>>
       /\ is_member(self, rhs.prevblock[1])

-----------------------------------------------------------------------------
(* justification.rs, example/blockchain.rs: the latest messages of a        *)
(* justification and the safety oracles                                     *)

\* the vector of a justification a message holds: the model keeps the set of
\* its messages, the vector lists them in one order
RECURSIVE justification_vec(_)
justification_vec(msgs) ==
    IF msgs = {} THEN <<>>
    ELSE LET m == CHOOSE x \in msgs : TRUE
         IN  <<m>> \o justification_vec(msgs \ {m})

\* From<&Justification> for LatestMsgs: the loop over the queue; updated is
\* what latest_msgs.update(msg) returned for the head of the queue, and the
\* justification of the head is pushed only when the update returned true
RECURSIVE LatestMsgs_from_loop(_, _)
\* a loop that never pushes the justification of the head on the queue
LatestMsgs_from_next_flat(updated, queue) ==
    LatestMsgs_from_loop(updated[1], Tail(queue))

LatestMsgs_from_next(updated, queue) ==
    IF updated[2]
    THEN LatestMsgs_from_loop(updated[1],
                              Tail(queue) \o justification_vec(Head(queue).justification))
    ELSE LatestMsgs_from_loop(updated[1], Tail(queue))

LatestMsgs_from_loop(latest_msgs, queue) ==
    IF queue = <<>> THEN latest_msgs
    ELSE LatestMsgs_from_next(LatestMsgs_update(latest_msgs, Head(queue)), queue)

\* LatestMsgs::from(j), j the vector of a justification
LatestMsgs_from(j) == LatestMsgs_from_loop(LatestMsgs_empty, j)

\* latest_in_justification(j, equivocators) of safety_oracles: the map
\* sender -> message of the latest honest messages of the justification
latest_in_justification(j, equivocators) ==
    LET honest == from_latest_msgs(LatestMsgs_from(j), equivocators)
    IN  [s \in {m.sender : m \in honest} |->
            CHOOSE m \in honest : m.sender = s]

\* the map latest_agreeing_in_sender_view of safety_oracles
latest_agreeing_in_sender_view(block, latest_msgs_honest, equivocators) ==
    LET latest_containing_block ==
            {msg \in latest_msgs_honest : is_member(block, msg.estimate)}
        view(m) == latest_in_justification(justification_vec(m.justification),
                                           equivocators)
        agreeing(m) == LET v == view(m)
                       IN  [s \in {x \in DOMAIN v : is_member(block, v[x].estimate)}
                               |-> v[s]]
    IN  [s \in {m.sender : m \in latest_containing_block} |->
            agreeing(CHOOSE m \in latest_containing_block : m.sender = s)]

\* neighbours that takes senderb for a neighbour of sender as soon as sender
\* has seen senderb agree
neighbours_of_one_way(view) ==
    [sender \in DOMAIN view |->
        {senderb \in DOMAIN view[sender] : senderb \in DOMAIN view}]

\* the map neighbours of safety_oracles: senderb is a neighbour of sender when
\* each of the two is in the view of the other
neighbours_of(view) ==
    [sender \in DOMAIN view |->
        {senderb \in DOMAIN view[sender] :
            IF senderb \in DOMAIN view THEN sender \in DOMAIN view[senderb]
            ELSE FALSE}]

\* bron_kerbosch(r, p, x, mx_clqs, neighbours): the cliques it inserts in
\* mx_clqs.  piter is what is left of the clone of p the loop goes through,
\* taken in the order in which the HashSet iterates (order ranks the senders)
RECURSIVE bron_kerbosch(_, _, _, _, _)
RECURSIVE bron_kerbosch_each(_, _, _, _, _, _)
bron_kerbosch_each(r, p, x, piter, neighbours, order) ==
    IF piter = {} THEN {}
    ELSE LET i == CHOOSE a \in piter : \A b \in piter : order[a] <= order[b]
             p1 == p \ {i}
         IN  bron_kerbosch(r \cup {i}, p1 \cap neighbours[i], x \cap neighbours[i],
                           neighbours, order)
             \cup bron_kerbosch_each(r, p1, x \cup {i}, piter \ {i}, neighbours, order)

bron_kerbosch(r, p, x, neighbours, order) ==
    IF p = {} /\ x = {} THEN {r}
    ELSE bron_kerbosch_each(r, p, x, p, neighbours, order)

\* the weight of a clique in the filter of safety_oracles: the fold of
\* acc + weights.get_weight(sender).unwrap_or(NAN); <<>> stands for NAN, the
\* sum with a sender that has no weight
RECURSIVE clique_weight(_, _)
clique_weight(clique, weights) ==
    IF clique = {} THEN <<0>>
    ELSE LET sender == CHOOSE s \in clique : TRUE
             rest == clique_weight(clique \ {sender}, weights)
         IN  IF sender \notin DOMAIN weights \/ rest = <<>> THEN <<>>
             ELSE <<rest[1] + weights[sender]>>

\* a filter that keeps a clique whose weight is the threshold
at_or_above_threshold(weight, safety_oracle_threshold) ==
    weight # <<>> /\ weight[1] >= safety_oracle_threshold

\* the filter of safety_oracles: NAN is greater than nothing
above_threshold(weight, safety_oracle_threshold) ==
    weight # <<>> /\ weight[1] > safety_oracle_threshold

\* Block::safety_oracles(block, latest_msgs_honest, equivocators,
\* safety_oracle_threshold, weights)
safety_oracles(block, latest_msgs_honest, equivocators, safety_oracle_threshold, weights, order) ==
    LET neighbours == neighbours_of(latest_agreeing_in_sender_view(
                          block, latest_msgs_honest, equivocators))
        p == UNION {neighbours[sender] : sender \in DOMAIN neighbours}
        mx_clqs == bron_kerbosch({}, p, {}, neighbours, order)
    IN  {clique \in mx_clqs :
            above_threshold(clique_weight(clique, weights), safety_oracle_threshold)}

-----------------------------------------------------------------------------
(* tests_common/vote_count.rs: the estimator that counts votes *)

VoteCount_new(yes, no) == [yes |-> yes, no |-> no]

\* VoteCount::is_valid
is_valid(vote) == vote \in {VoteCount_new(1, 0), VoteCount_new(0, 1)}

\* VoteCount::toggled_vote
toggled_vote(vote) ==
    IF vote = VoteCount_new(1, 0) THEN VoteCount_new(0, 1)
    ELSE IF vote = VoteCount_new(0, 1) THEN VoteCount_new(1, 0)
    ELSE VoteCount_new(0, 0)

\* the arm of recursor for a message with an empty justification: a valid vote
\* removes the opposite vote of its sender or is added
recursor_vote(acc, m) ==
    IF is_valid(m.estimate)
    THEN LET equivocation == Message_new(m.sender, m.justification,
                                         toggled_vote(m.estimate))
         IN  IF equivocation \in acc THEN acc \ {equivocation} ELSE acc \cup {m}
    ELSE acc

\* get_vote_msgs::recursor(latest_msgs, acc): the fold over the vector
RECURSIVE recursor(_, _)
recursor(latest_msgs, acc) ==
    IF latest_msgs = <<>> THEN acc
    ELSE LET m == Head(latest_msgs)
         IN  IF m.justification = {}
             THEN recursor(Tail(latest_msgs), recursor_vote(acc, m))
             ELSE recursor(Tail(latest_msgs),
                           recursor(justification_vec(m.justification), acc))

\* VoteCount::get_vote_msgs(latest_msgs): latest_msgs is the vector the latest
\* honest messages are inserted in, in the order in which their set iterates
get_vote_msgs(latest_msgs) == recursor(latest_msgs, {})

\* votes.iter().fold(ZERO, |acc, vote| acc + vote.estimate())
RECURSIVE sum_votes(_)
sum_votes(votes) ==
    IF votes = {} THEN VoteCount_new(0, 0)
    ELSE LET vote == CHOOSE x \in votes : TRUE
             rest == sum_votes(votes \ {vote})
         IN  VoteCount_new(rest.yes + vote.estimate.yes, rest.no + vote.estimate.no)

\* Estimator for VoteCount, estimate(latest_msgs, weights)
VoteCount_estimate(latest_msgs) == sum_votes(get_vote_msgs(latest_msgs))

-----------------------------------------------------------------------------
(* tests_common/integer.rs: the estimator that takes the weighted median.  *)
(* NAN is <<>> and a weight is <<w>>; an Err is <<>> and Ok(e) is <<e>>.    *)

\* validators_weights.weight(sender).unwrap_or(U::NAN)
weight_or_nan(weights, validator) ==
    IF weight_found(weights, validator) THEN <<weights[validator]>> ELSE <<>>

\* acc + w, NAN when one of the two is and INFINITY when one of the two is
nan_add(a, b) == IF a = <<>> \/ b = <<>> THEN <<>> ELSE <<WAdd(a[1], b[1])>>

\* a < b, false when one of the two is NAN
nan_less(a, b) == a # <<>> /\ b # <<>> /\ a[1] < b[1]

\* total_weight: the fold over the messages
RECURSIVE total_weight(_, _)
total_weight(messages, weights) ==
    IF messages = <<>> THEN <<0>>
    ELSE nan_add(total_weight(Tail(messages), weights),
                 weight_or_nan(weights, Head(messages).sender))

\* the while loop: current_message is <<>> for an Err and <<m>> for Ok(m)
RECURSIVE median_loop(_, _, _, _, _)
median_loop(running_weight, message_iter, current_message, total, weights) ==
    IF ~nan_less(nan_add(running_weight, running_weight), total)
    THEN current_message
    ELSE IF message_iter = <<>>
    THEN \* ok_or("no next message"), and NAN is added to running_weight
         median_loop(<<>>, message_iter, <<>>, total, weights)
    ELSE median_loop(nan_add(running_weight,
                             weight_or_nan(weights, Head(message_iter).sender)),
                     Tail(message_iter), <<Head(message_iter)>>, total, weights)

\* Estimator for IntegerWrapper, estimate(latest_messages, validators_weights):
\* messages is the vector of the latest messages sorted by estimate
IntegerWrapper_estimate(messages, weights) ==
    LET current_message == median_loop(<<0>>, messages, <<>>,
                                       total_weight(messages, weights), weights)
    IN  IF current_message = <<>> THEN <<>> ELSE <<current_message[1].estimate>>

-----------------------------------------------------------------------------
(* The admission machine: one Justification being filled and one State.    *)
(* The calls are made in any order.  A call is either made silently or     *)
(* observed: an observed call is recorded in last with the justification   *)
(* and the State it was made on, and ends the run.                         *)

WeightMaps ==
    UNION { [D -> 1..MaxWeight] : D \in {{0}, {0, 1}} }

NoCall == [op |-> "none"]

InitAdmission ==
    /\ justification = <<>>
    /\ \E w \in WeightMaps, t \in 0..MaxThr :
            state = State_new(w, 0, LatestMsgs_empty, t, {})
    /\ last = NoCall
    /\ admitted = {}
    /\ inclusion_weight = <<>>
    /\ slashed_in = {}

Observe(observed, op, arg, ret) ==
    last' = IF observed
            THEN [op |-> op, arg |-> arg, ret |-> ret,
                  j |-> justification, st |-> state]
            ELSE last

\* history: the senders that enter equivocators in this call get the weight
\* they have in the weights map of the state before the call
RecordInclusion(st_after) ==
    inclusion_weight' =
        [s \in st_after.equivocators |->
            IF s \in state.equivocators THEN inclusion_weight[s]
            ELSE weight_or_infinity(state.validators_weights, s)]

\* j.faulty_insert(msg, &mut state)
FaultyInsert(msg, observed) ==
    LET r == faulty_insert([j |-> justification, st |-> state], msg) IN
    /\ last = NoCall
    /\ observed \/ Len(r.j) <= MaxJustLen
    /\ justification' = r.j
    /\ state' = r.st
    /\ Observe(observed, "faulty_insert", msg, r.ret)
    /\ admitted' = IF r.ret THEN admitted \cup {msg} ELSE admitted
    /\ RecordInclusion(r.st)
    /\ UNCHANGED slashed_in
    /\ UNCHANGED <<depends_vars, identity_vars, ghost_vars, oracle_vars, round_vars, from_vars, weights_vars, latest_vars, par_vars, share_vars>>

\* j.faulty_inserts(msgs, &mut state): r is what the call returns
FaultyInsertsReturned(msgs, observed, r) ==
    /\ last = NoCall
    /\ observed \/ Len(r.j) <= MaxJustLen
    /\ justification' = r.j
    /\ state' = r.st
    /\ Observe(observed, "faulty_inserts", msgs,
               [admitted |-> r.ret, sorted |-> r.sorted, calls |-> r.calls])
    /\ admitted' = admitted \cup r.ret
    /\ RecordInclusion(r.st)
    /\ UNCHANGED slashed_in
    /\ UNCHANGED <<depends_vars, identity_vars, ghost_vars, oracle_vars, round_vars, from_vars, weights_vars, latest_vars, par_vars, share_vars>>

FaultyInserts(msgs, observed) ==
    FaultyInsertsReturned(msgs, observed,
                          faulty_inserts([j |-> justification, st |-> state], msgs))

\* j.faulty_insert_with_slash(msg, &mut state)
FaultyInsertWithSlash(msg, observed) ==
    LET r == faulty_insert_with_slash([j |-> justification, st |-> state], msg) IN
    /\ last = NoCall
    /\ observed \/ Len(r.j) <= MaxJustLen
    /\ justification' = r.j
    /\ state' = r.st
    /\ Observe(observed, "faulty_insert_with_slash", msg, r.ret)
    /\ admitted' = admitted \cup {msg}
    /\ RecordInclusion(r.st)
    /\ slashed_in' = slashed_in \cup (r.st.equivocators \ state.equivocators)
    /\ UNCHANGED <<depends_vars, identity_vars, ghost_vars, oracle_vars, round_vars, from_vars, weights_vars, latest_vars, par_vars, share_vars>>

\* state.update(messages)
StateUpdate(messages, observed) ==
    LET r == State_update(state, messages) IN
    /\ last = NoCall
    /\ state' = r[1]
    /\ Observe(observed, "update", messages, r[2])
    /\ admitted' = admitted \cup Range(messages)
    /\ RecordInclusion(r[1])
    /\ UNCHANGED <<justification, slashed_in>>
    /\ UNCHANGED <<depends_vars, identity_vars, ghost_vars, oracle_vars, round_vars, from_vars, weights_vars, latest_vars, par_vars, share_vars>>

\* Justification::empty(): the caller starts a new justification on the same State
NewJustification ==
    /\ last = NoCall
    /\ justification # <<>>
    /\ justification' = <<>>
    /\ UNCHANGED <<state, last, admitted, inclusion_weight, slashed_in>>
    /\ UNCHANGED <<depends_vars, identity_vars, ghost_vars, oracle_vars, round_vars, from_vars, weights_vars, latest_vars, par_vars, share_vars>>

Batches == {b \in SUBSET Messages : Cardinality(b) <= MaxBatch}

\* A silent update is made one message at a time: update(&[a, b]) leaves the
\* State that update(&[a]) followed by update(&[b]) leaves
SingleSlices == { <<m>> : m \in Messages }


InitShareIdle ==
    /\ sh_arcs = <<>>
    /\ sh_states = <<>>
    /\ sh_justifications = <<>>
    /\ sh_last = <<>>

InitParIdle ==
    /\ par_call = <<>>
    /\ par_visited = {}
    /\ par_filter = <<>>
    /\ par_any = <<>>
    /\ par_traversed = <<>>
    /\ par_found = FALSE

InitLatestIdle ==
    /\ lm_latest_msgs = <<>>
    /\ lm_queue = <<>>
    /\ lm_j = <<>>
    /\ lm_update = <<>>

InitWeightsIdle ==
    /\ hash_map = <<>>
    /\ weights_call = <<>>

InitFromIdle ==
    /\ from_estimator = "VoteCount"
    /\ from_state = State_new(<<>>, 0, LatestMsgs_empty, 0, {})
    /\ from_count = 0
    /\ from_call = <<>>

InitRoundIdle ==
    /\ round_votes = <<>>
    /\ round_states = <<>>
    /\ round_sent = 0

InitOracleIdle ==
    /\ chain = <<>>
    /\ chain_state = State_new(<<>>, 0, LatestMsgs_empty, 0, {})
    /\ oracle_target = genesis_block
    /\ oracle_thr = 0
    /\ oracle_out = <<>>
    /\ oracle_prev = <<>>

InitGhostIdle ==
    /\ ghost_latest = {genesis_block}
    /\ ghost_weights = [s \in BlockSenders |-> 1]
    /\ ghost_keys = <<>>
    /\ ghost_order = <<>>
    /\ ghost_result = <<>>
    /\ ghost_endorsers = <<>>

InitIdentityIdle ==
    /\ new_lhs = [sender |-> 0, justification |-> <<>>, estimate |-> 0, id |-> <<>>]
    /\ new_rhs = new_lhs
    /\ built = <<>>

InitDependsIdle ==
    /\ dep_lhs = v0
    /\ dep_rhs = v0
    /\ dep_result = <<>>
    /\ eq_result = <<>>
    /\ circ_result = <<>>

Init ==
    /\ InitAdmission /\ InitDependsIdle /\ InitIdentityIdle /\ InitGhostIdle
    /\ InitOracleIdle
    /\ InitRoundIdle
    /\ InitFromIdle
    /\ InitWeightsIdle
    /\ InitLatestIdle
    /\ InitParIdle
    /\ InitShareIdle

\* Any sequence of calls
Next ==
    \/ \E msg \in Messages : FaultyInsert(msg, FALSE)
    \/ \E msgs \in Batches : FaultyInserts(msgs, FALSE)
    \/ \E msg \in Messages : FaultyInsertWithSlash(msg, FALSE)
    \/ \E messages \in SingleSlices : StateUpdate(messages, FALSE)
    \/ NewJustification

Spec == Init /\ [][Next]_vars

\* faulty_insert and faulty_inserts alone, from the empty State; the messages
\* inserted one by one include the one built on the two competing votes of
\* its sender
InsertMessages == Messages \cup {m0_absorbed}

NextInsertOnly ==
    \/ \E msg \in InsertMessages, observed \in BOOLEAN : FaultyInsert(msg, observed)
    \/ \E msgs \in Batches, observed \in BOOLEAN : FaultyInserts(msgs, observed)

SpecInsertOnly == Init /\ [][NextInsertOnly]_vars

\* Any sequence of calls, then one observed faulty_insert
NextInsert ==
    \/ Next
    \/ \E msg \in Messages : FaultyInsert(msg, TRUE)

SpecInsert == Init /\ [][NextInsert]_vars

\* Any sequence of calls, then one observed faulty_insert_with_slash
NextSlash ==
    \/ Next
    \/ \E msg \in Messages : FaultyInsertWithSlash(msg, TRUE)

SpecSlash == Init /\ [][NextSlash]_vars

\* Any sequence of calls, then one observed State::update
NextUpdate ==
    \/ Next
    \/ \E messages \in SingleSlices : StateUpdate(messages, TRUE)

SpecUpdate == Init /\ [][NextUpdate]_vars

\* The tests of sort_by_faultweight and faulty_inserts_sorted: a State of
\* three validators (the third one with or without a weight) brought to its
\* latest messages by State::update, then one observed faulty_inserts
SortedWeightMaps ==
    UNION { [D -> 1..MaxWeight] : D \in {{0, 1}, {0, 1, 2}} }

InitSorted ==
    /\ justification = <<>>
    /\ \E w \in SortedWeightMaps, t \in 0..MaxThr :
            state = State_new(w, 0, LatestMsgs_empty, t, {})
    /\ last = NoCall
    /\ admitted = {}
    /\ inclusion_weight = <<>>
    /\ slashed_in = {}
    /\ InitDependsIdle
    /\ InitIdentityIdle
    /\ InitGhostIdle
    /\ InitOracleIdle
    /\ InitRoundIdle
    /\ InitFromIdle
    /\ InitWeightsIdle
    /\ InitLatestIdle
    /\ InitParIdle
    /\ InitShareIdle

SortedBatches ==
    {b \in SUBSET SortedMessages : Cardinality(b) \in 1..(MaxBatch + 2)}

NextSorted ==
    \/ \E m \in SortedMessages : StateUpdate(<<m>>, FALSE)
    \/ \E msgs \in SortedBatches : FaultyInserts(msgs, TRUE)

SpecSorted == InitSorted /\ [][NextSorted]_vars

\* detect_equivocation: every validator has a weight, the threshold is 0 or
\* the total weight of the validators, and the messages are given to
\* faulty_insert in any order
InitThreshold ==
    /\ justification = <<>>
    /\ \E w \in [Validators -> 1..MaxWeight] :
          \E t \in {0, w[0] + w[1]} :
            state = State_new(w, 0, LatestMsgs_empty, t, {})
    /\ last = NoCall
    /\ admitted = {}
    /\ inclusion_weight = <<>>
    /\ slashed_in = {}
    /\ InitDependsIdle
    /\ InitIdentityIdle
    /\ InitGhostIdle
    /\ InitOracleIdle
    /\ InitRoundIdle
    /\ InitFromIdle
    /\ InitWeightsIdle
    /\ InitLatestIdle
    /\ InitParIdle
    /\ InitShareIdle

NextThreshold ==
    \/ \E msg \in ThresholdMessages : FaultyInsert(msg, FALSE)
    \/ \E msg \in ThresholdMessages : FaultyInsert(msg, TRUE)

SpecThreshold == InitThreshold /\ [][NextThreshold]_vars

-----------------------------------------------------------------------------
(* depends on its own: two messages of a DAG built by the constructor, each  *)
(* new message justified by one or two messages built before it             *)

RECURSIVE Dag(_)
Dag(depth) ==
    IF depth = 0 THEN {v0, v1}
    ELSE LET older == Dag(depth - 1)
         IN  older \cup { Message_new(0, {a, b}, 0) : a \in older, b \in older }

DagMessages == Dag(MaxDepth)

InitAdmissionIdle ==
    /\ justification = <<>>
    /\ state = State_new(<<>>, 0, LatestMsgs_empty, 0, {})
    /\ last = NoCall
    /\ admitted = {}
    /\ inclusion_weight = <<>>
    /\ slashed_in = {}

InitDepends ==
    /\ InitAdmissionIdle
    /\ InitIdentityIdle
    /\ InitGhostIdle
    /\ InitOracleIdle
    /\ InitRoundIdle
    /\ InitFromIdle
    /\ InitWeightsIdle
    /\ InitLatestIdle
    /\ InitParIdle
    /\ InitShareIdle
    /\ dep_lhs \in DagMessages
    /\ dep_rhs \in DagMessages
    /\ dep_result = <<>>
    /\ eq_result = <<>>
    /\ circ_result = <<>>

\* dep_lhs.depends(dep_rhs)
DependsCall ==
    /\ dep_result = <<>>
    /\ dep_result' = <<depends(dep_lhs, dep_rhs)>>
    /\ UNCHANGED <<dep_lhs, dep_rhs, eq_result, circ_result>>
    /\ UNCHANGED <<admission_vars, identity_vars, ghost_vars, oracle_vars, round_vars, from_vars, weights_vars, latest_vars, par_vars, share_vars>>

\* dep_lhs.equivocates(dep_rhs) and dep_rhs.equivocates(dep_lhs)
EquivocatesCall ==
    /\ eq_result = <<>>
    /\ eq_result' = <<equivocates(dep_lhs, dep_rhs), equivocates(dep_rhs, dep_lhs)>>
    /\ UNCHANGED <<dep_lhs, dep_rhs, dep_result, circ_result>>
    /\ UNCHANGED <<admission_vars, identity_vars, ghost_vars, oracle_vars, round_vars, from_vars, weights_vars, latest_vars, par_vars, share_vars>>

\* dep_lhs.is_circular(dep_rhs)
IsCircularCall ==
    /\ circ_result = <<>>
    /\ circ_result' = <<is_circular(dep_lhs, dep_rhs)>>
    /\ UNCHANGED <<dep_lhs, dep_rhs, dep_result, eq_result>>
    /\ UNCHANGED <<admission_vars, identity_vars, ghost_vars, oracle_vars, round_vars, from_vars, weights_vars, latest_vars, par_vars, share_vars>>

NextDepends ==
    \/ DependsCall
    \/ EquivocatesCall
    \/ IsCircularCall

SpecDepends == InitDepends /\ [][NextDepends]_vars

-----------------------------------------------------------------------------
(* Message::new on its own: two calls of the constructor, the two messages *)
(* compared                                                                *)

\* the ids a caller passes: None, or Some(the id of the vote of validator 0 for 0)
IdOptions == {<<>>, <<Hashed(<<0, 0, <<>> >>)>>}

BoxedVotes ==
    { Message_new_with_id(sender, <<>>, estimate, id) :
        sender \in Validators, estimate \in Estimates, id \in IdOptions }

\* Justification vectors as Justification::insert fills them: no two messages
\* equal to each other
JustificationVecs ==
    { j \in UNION { [1..n -> BoxedVotes] : n \in 0..MaxJustLen } :
        \A i, k \in 1..Len(j) : i # k => ~Message_eq(j[i], j[k]) }

NewCalls ==
    { [sender |-> sender, justification |-> <<>>, estimate |-> estimate, id |-> id] :
        sender \in Validators, estimate \in Estimates, id \in IdOptions }
    \cup
    { [sender |-> 0, justification |-> j, estimate |-> 0, id |-> id] :
        j \in JustificationVecs, id \in IdOptions }

NewOf(call) ==
    Message_new_with_id(call.sender, call.justification, call.estimate, call.id)

InitIdentity ==
    /\ InitAdmissionIdle
    /\ InitDependsIdle
    /\ InitGhostIdle
    /\ InitOracleIdle
    /\ InitRoundIdle
    /\ InitFromIdle
    /\ InitWeightsIdle
    /\ InitLatestIdle
    /\ InitParIdle
    /\ InitShareIdle
    /\ new_lhs \in NewCalls
    /\ new_rhs \in NewCalls
    /\ built = <<>>

\* let a = Message::new(..); let b = Message::new(..); a == b
NewCall ==
    /\ built = <<>>
    /\ LET a == NewOf(new_lhs)
           b == NewOf(new_rhs)
       IN  built' = [a |-> a, b |-> b, eq |-> Message_eq(a, b)]
    /\ UNCHANGED <<new_lhs, new_rhs>>
    /\ UNCHANGED <<admission_vars, depends_vars, ghost_vars, oracle_vars, round_vars, from_vars, weights_vars, latest_vars, par_vars, share_vars>>

SpecIdentity == InitIdentity /\ [][NewCall]_vars

-----------------------------------------------------------------------------
(* The fork choice: the blocks of the latest honest messages, one for a    *)
(* sender at most, the weights of the senders, and one call of ghost       *)

LatestViews ==
    { L \in SUBSET Blocks :
        /\ L # {}
        /\ \A a, b \in L : a.sender = b.sender => a = b }

BlockWeightMaps ==
    { w \in [BlockSenders -> 1..(MaxWeight + 1)] : w[0] = 1 }

\* the orders in which a HashMap can iterate over the keys S
KeyOrders(S) ==
    { f \in [1..Cardinality(S) -> S] : \A i, k \in DOMAIN f : i # k => f[i] # f[k] }

\* the orders in which a HashSet of blocks can be iterated, as ranks of the
\* senders that build on the genesis block
IterationOrders ==
    { f \in [BlockSenders -> BlockSenders] :
        /\ f[0] = 0
        /\ \A a, b \in BlockSenders : a # b => f[a] # f[b] }

\* weights that can be zero: Weights::validators leaves such validators out
\* and faulty_insert_with_slash writes such a weight
ZeroWeightMaps == [BlockSenders -> 0..1]

InitGhost ==
    /\ InitAdmissionIdle
    /\ InitDependsIdle
    /\ InitIdentityIdle
    /\ InitOracleIdle
    /\ InitRoundIdle
    /\ InitFromIdle
    /\ InitWeightsIdle
    /\ InitLatestIdle
    /\ InitParIdle
    /\ InitShareIdle
    /\ ghost_latest \in LatestViews
    /\ ghost_weights \in BlockWeightMaps
    /\ ghost_keys = <<>>
    /\ ghost_order = <<>>
    /\ ghost_result = <<>>
    /\ ghost_endorsers = <<>>

\* Block::ghost(&latest_msgs, None, &senders_weights)
GhostCall ==
    /\ ghost_result = <<>>
    /\ \E keys \in KeyOrders(ghost_latest), order \in IterationOrders :
          /\ ghost_keys' = keys
          /\ ghost_order' = order
          /\ ghost_result' = <<ghost(keys, order, ghost_weights)>>
    /\ UNCHANGED <<ghost_latest, ghost_weights, ghost_endorsers>>
    /\ UNCHANGED <<admission_vars, depends_vars, identity_vars, oracle_vars, round_vars, from_vars, weights_vars, latest_vars, par_vars, share_vars>>

SpecGhost == InitGhost /\ [][GhostCall]_vars

\* the call of ghost followed through its memo; returned is what it gave
GhostMemoReturned(keys, order, returned) ==
    /\ ghost_keys' = keys
    /\ ghost_order' = order
    /\ ghost_result' = <<returned.block>>
    /\ ghost_endorsers' = returned.lms

GhostMemoCall ==
    /\ ghost_result = <<>>
    /\ \E keys \in KeyOrders(ghost_latest), order \in IterationOrders :
          GhostMemoReturned(keys, order, ghost_memo(keys, order, ghost_weights))
    /\ UNCHANGED <<ghost_latest, ghost_weights>>
    /\ UNCHANGED <<admission_vars, depends_vars, identity_vars, oracle_vars, round_vars,
                   from_vars, weights_vars, latest_vars, par_vars, share_vars>>

\* the weights of the calls followed through the memo: validator 1 has the
\* weight of validator 0
MemoWeightMaps == {w \in BlockWeightMaps : w[1] = 1}

InitGhostMemo ==
    /\ InitAdmissionIdle
    /\ InitDependsIdle
    /\ InitIdentityIdle
    /\ InitOracleIdle
    /\ InitRoundIdle
    /\ InitFromIdle
    /\ InitWeightsIdle
    /\ InitLatestIdle
    /\ InitParIdle
    /\ InitShareIdle
    /\ ghost_latest \in LatestViews
    /\ ghost_weights \in MemoWeightMaps
    /\ ghost_keys = <<>>
    /\ ghost_order = <<>>
    /\ ghost_result = <<>>
    /\ ghost_endorsers = <<>>

SpecGhostMemo == InitGhostMemo /\ [][GhostMemoCall]_vars

\* The fork choice with weights that can be zero
InitGhostZero ==
    /\ InitAdmissionIdle
    /\ InitDependsIdle
    /\ InitIdentityIdle
    /\ InitOracleIdle
    /\ InitRoundIdle
    /\ InitFromIdle
    /\ InitWeightsIdle
    /\ InitLatestIdle
    /\ InitParIdle
    /\ InitShareIdle
    /\ ghost_latest \in LatestViews
    /\ ghost_weights \in ZeroWeightMaps
    /\ ghost_keys = <<>>
    /\ ghost_order = <<>>
    /\ ghost_result = <<>>
    /\ ghost_endorsers = <<>>

SpecGhostZero == InitGhostZero /\ [][GhostCall]_vars

-----------------------------------------------------------------------------
(* The safety oracles, as the test of blockchain.rs asks for them: the      *)
(* validators build block messages in turn, each message from the message   *)
(* built before it and from the State the call before handed on, and the    *)
(* oracles of one block are computed on the State each call returns         *)

ChainValidators == 0..2

MaxBlocks == 6

\* the orders in which a HashSet of senders can be iterated
SenderOrders ==
    { f \in [ChainValidators -> ChainValidators] :
        \A a, b \in ChainValidators : a # b => f[a] # f[b] }

\* the orders in which a HashSet of the blocks of these senders can be iterated
ChainIterationOrders == {f \in IterationOrders : \A s \in BlockSenders \ ChainValidators : f[s] = s}

\* the weights of the validators, the weight of validator 0 being the unit
ChainWeightMaps == {w \in [ChainValidators -> 1..MaxWeight] : w[0] = 1}

\* the blocks the oracles are asked for: the genesis block and its children
OracleTargets ==
    {genesis_block}
        \cup {Block_new(<<genesis_block>>, s) : s \in ChainValidators \ {0}}

InitOracle ==
    /\ InitAdmissionIdle
    /\ InitDependsIdle
    /\ InitIdentityIdle
    /\ InitGhostIdle
    /\ InitRoundIdle
    /\ InitFromIdle
    /\ InitWeightsIdle
    /\ InitLatestIdle
    /\ InitParIdle
    /\ InitShareIdle
    /\ chain = <<Message_new(0, {}, genesis_block)>>
    /\ \E w \in ChainWeightMaps :
            chain_state = State_new(w, 0, LatestMsgs_empty, 1, {})
    /\ oracle_target \in OracleTargets
    /\ oracle_thr \in 0..MaxThr
    /\ oracle_out = <<>>
    /\ oracle_prev = <<>>

\* from_msgs(s, [the last message], chain_state, a block of s) and then
\* safety_oracles on the State it returned; inserted is what faulty_inserts
\* returned inside from_msgs
BuildBlockInserted(s, inserted) ==
    /\ \E border \in SenderOrders :
            oracle_out' = <<safety_oracles(
                                oracle_target,
                                from_latest_msgs(inserted.st.latest_msgs,
                                                 inserted.st.equivocators),
                                inserted.st.equivocators, oracle_thr,
                                inserted.st.validators_weights, border)>>
    /\ \E keys \in KeyOrders(latest_honest_blocks(inserted.st)),
          order \in ChainIterationOrders :
            LET made == from_msgs_inserted(
                            s, inserted, {chain[Len(chain)]},
                            <<mk_estimate(keys, order,
                                          inserted.st.validators_weights,
                                          Block_new(<<>>, s))>>)
            IN  /\ made # <<>>
                /\ chain' = Append(chain, made[1].msg)
                /\ chain_state' = made[1].sender_state
    /\ oracle_prev' = oracle_out
    /\ UNCHANGED <<oracle_target, oracle_thr>>
    /\ UNCHANGED <<admission_vars, depends_vars, identity_vars, ghost_vars, round_vars, from_vars, weights_vars, latest_vars, par_vars, share_vars>>

BuildBlock(s) ==
    /\ Len(chain) <= MaxBlocks
    /\ s # chain[Len(chain)].sender
    /\ BuildBlockInserted(s, faulty_inserts([j |-> <<>>, st |-> chain_state],
                                            {chain[Len(chain)]}))

NextOracle == \E s \in ChainValidators : BuildBlock(s)

SpecOracle == InitOracle /\ [][NextOracle]_vars

\* The test itself: the validators build the blocks in the order of the test
TestSenders == <<1, 0, 1, 2, 1, 2, 0, 2, 0>>

BuildTestBlock ==
    /\ Len(chain) <= Len(TestSenders)
    /\ BuildBlockInserted(TestSenders[Len(chain)],
                          faulty_inserts([j |-> <<>>, st |-> chain_state],
                                         {chain[Len(chain)]}))

SpecOracleTest == InitOracle /\ [][BuildTestBlock]_vars

-----------------------------------------------------------------------------
(* The round robin of generative_tests.rs: validators of equal weight, each *)
(* with the State that holds its own vote, send in turn, and every message  *)
(* is delivered to all of them                                              *)

MaxValidators == 4

VoteEstimates == {VoteCount_new(1, 0), VoteCount_new(0, 1)}

RoundValidators == DOMAIN round_states

\* the first message of a validator: its vote, with an empty justification
initial_msg(validator) == Message_new(validator, {}, round_votes[validator])

InitRound ==
    /\ InitAdmissionIdle
    /\ InitDependsIdle
    /\ InitIdentityIdle
    /\ InitGhostIdle
    /\ InitOracleIdle
    /\ InitFromIdle
    /\ InitWeightsIdle
    /\ InitLatestIdle
    /\ InitParIdle
    /\ InitShareIdle
    /\ \E n \in 1..MaxValidators : round_votes \in [0..(n - 1) -> VoteEstimates]
    /\ \E w \in 1..MaxWeight :
            round_states =
                [v \in DOMAIN round_votes |->
                    State_new([u \in DOMAIN round_votes |-> w], 0,
                              LatestMsgs_from(<<initial_msg(v)>>), 0, {})]
    /\ round_sent = 0

\* round_robin: the last validator of the vector sends and goes to its front
round_robin == (Cardinality(RoundValidators) - 1) - (round_sent % Cardinality(RoundValidators))

\* the latest messages of a State, of every sender
all_latest(st) == UNION {st.latest_msgs[v] : v \in DOMAIN st.latest_msgs}

\* latest_delta of add_message: the latest messages that are not in the
\* justification of the last message of the sender
latest_delta(st, my_last_msg) ==
    {lm \in all_latest(st) : lm \notin my_last_msg.justification}

\* the vectors state.sort_by_faultweight(msgs) can return when the ids of the
\* messages are hashes: the messages kept, by ascending fault weight
sort_by_faultweight_orders(st, messages) ==
    {sorted \in KeyOrders({m \in messages : faultweight_of(st, m)[1]}) :
        \A i, k \in DOMAIN sorted :
            i < k => faultweight_of(st, sorted[i])[2] <= faultweight_of(st, sorted[k])[2]}

\* add_message(state, sender, recipients, data) with all the validators as
\* recipients; inserted is what faulty_inserts returned inside from_msgs
AddMessageInserted(sender, new_msgs, inserted) ==
    /\ \E latest_msgs \in KeyOrders(from_latest_msgs(inserted.st.latest_msgs,
                                                    inserted.st.equivocators)) :
            LET made == from_msgs_inserted(sender, inserted, new_msgs,
                                           <<VoteCount_estimate(latest_msgs)>>)
            IN  /\ made # <<>>
                /\ round_states' =
                      [recipient \in RoundValidators |->
                          state_latest_update(
                              IF recipient = sender THEN made[1].sender_state
                              ELSE round_states[recipient],
                              made[1].msg)]
    /\ round_sent' = round_sent + 1
    /\ UNCHANGED round_votes
    /\ UNCHANGED <<admission_vars, depends_vars, identity_vars, ghost_vars, oracle_vars, from_vars, weights_vars, latest_vars, par_vars, share_vars>>

AddMessageSorted(sender, new_msgs) ==
    \E sorted \in sort_by_faultweight_orders(round_states[sender], new_msgs) :
        AddMessageInserted(sender, new_msgs,
                           faulty_inserts_sorted([j |-> <<>>, st |-> round_states[sender]],
                                                 sorted))

\* one message of the first pass of the round robin: the last message of the
\* sender is still its vote
AddMessage ==
    /\ round_sent < Cardinality(RoundValidators)
    /\ AddMessageSorted(round_robin,
                        latest_delta(round_states[round_robin], initial_msg(round_robin)))

SpecRound == InitRound /\ [][AddMessage]_vars

-----------------------------------------------------------------------------
(* from_msgs on its own: a State, an estimator, and calls of from_msgs with *)
(* votes and with the message the call before built; a call that returns an *)
(* Err leaves the State of the caller as it was                             *)

MaxCalls == 2

FromValidators == 0..2

Estimators == {"VoteCount", "IntegerWrapper"}

\* the estimates of the votes of an estimator
vote_estimates(estimator) ==
    IF estimator = "VoteCount" THEN VoteEstimates ELSE {0, 1}

\* the votes: messages with an empty justification, two competing ones of each
\* validator
FromVotes ==
    {Message_new(s, {}, e) : s \in FromValidators, e \in vote_estimates(from_estimator)}

\* the weights: of every validator, or of all but the last
FromWeightMaps ==
    {w \in [FromValidators -> 1..MaxWeight] \cup [FromValidators \ {2} -> 1..MaxWeight] :
        w[0] = 1}

InitFrom ==
    /\ InitAdmissionIdle
    /\ InitDependsIdle
    /\ InitIdentityIdle
    /\ InitGhostIdle
    /\ InitOracleIdle
    /\ InitRoundIdle
    /\ InitWeightsIdle
    /\ InitLatestIdle
    /\ InitParIdle
    /\ InitShareIdle
    /\ from_estimator \in Estimators
    /\ \E w \in FromWeightMaps, t \in 0..MaxThr :
            from_state = State_new(w, 0, LatestMsgs_empty, t, {})
    /\ from_count = 0
    /\ from_call = <<>>

\* the vectors the estimator can work on: the latest honest messages in the
\* order in which their set iterates and, for the median, sorted by estimate
estimator_orders(estimator, latest_msgs_honest) ==
    {f \in KeyOrders(latest_msgs_honest) :
        estimator = "IntegerWrapper"
        => \A i, k \in DOMAIN f : i < k => f[i].estimate <= f[k].estimate}

\* latest_msgs_honest.mk_estimate(weights, external_data)
estimate_with(estimator, latest_msgs, weights) ==
    IF estimator = "VoteCount" THEN <<VoteCount_estimate(latest_msgs)>>
    ELSE IntegerWrapper_estimate(latest_msgs, weights)

\* the call once from_msgs returned made, inserted being what faulty_inserts
\* returned inside it
FromMsgsMade(sender, new_msgs, inserted, made) ==
    /\ from_call' = [sender |-> sender, new_msgs |-> new_msgs,
                     sender_state |-> from_state, admitted |-> inserted.ret,
                     inserted_state |-> inserted.st, result |-> made]
    /\ from_state' = IF made = <<>> THEN from_state ELSE made[1].sender_state
    /\ from_count' = from_count + 1
    /\ UNCHANGED from_estimator
    /\ UNCHANGED <<admission_vars, depends_vars, identity_vars, ghost_vars,
                   oracle_vars, round_vars, weights_vars, latest_vars, par_vars, share_vars>>

FromMsgsInserted(sender, new_msgs, inserted) ==
    \E latest_msgs \in estimator_orders(
                           from_estimator,
                           from_latest_msgs(inserted.st.latest_msgs,
                                            inserted.st.equivocators)) :
        FromMsgsMade(sender, new_msgs, inserted,
                     from_msgs_inserted(sender, inserted, new_msgs,
                                        estimate_with(from_estimator, latest_msgs,
                                                      inserted.st.validators_weights)))

\* Message::from_msgs(sender, new_msgs, from_state, None)
FromMsgs(sender, new_msgs) ==
    /\ from_count < MaxCalls
    /\ \E sorted \in sort_by_faultweight_orders(from_state, new_msgs) :
          FromMsgsInserted(sender, new_msgs,
                           faulty_inserts_sorted([j |-> <<>>, st |-> from_state],
                                                 sorted))

\* the messages a call can be given: votes and the message built before
FromBatches ==
    {b \in SUBSET (FromVotes
                     \cup (IF from_call # <<>> /\ from_call.result # <<>>
                           THEN {from_call.result[1].msg} ELSE {})) :
        Cardinality(b) <= MaxBatch}

NextFrom == \E sender \in FromValidators, new_msgs \in FromBatches : FromMsgs(sender, new_msgs)

SpecFrom == InitFrom /\ [][NextFrom]_vars

-----------------------------------------------------------------------------
(* validator.rs: Weights on its own.  The map holds a weight <<w>> or NAN,   *)
(* <<>>, for each of its validators; a Result is <<>> for Err(NotFound) and  *)
(* <<x>> for Ok(x).  The lock is never poisoned: nothing panics under it.    *)

WeightsValidators == 0..2

\* the weights of the tests: negative, zero, positive, INFINITY and NAN
WeightUnits == {<<-1>>, <<0>>, <<1>>, <<2>>, <<INFINITY>>, <<>>}

\* Weights::new(weights)
InitWeights ==
    /\ InitAdmissionIdle
    /\ InitDependsIdle
    /\ InitIdentityIdle
    /\ InitGhostIdle
    /\ InitOracleIdle
    /\ InitRoundIdle
    /\ InitFromIdle
    /\ InitLatestIdle
    /\ InitParIdle
    /\ InitShareIdle
    /\ hash_map \in UNION {[S -> WeightUnits] : S \in SUBSET WeightsValidators}
    /\ weights_call = <<>>

\* the test of the filter_map: weight >= ZERO
weight_is_not_negative(weight) == weight # <<>> /\ weight[1] >= 0

\* the test of the filter_map: weight > ZERO
weight_is_positive(weight) == nan_less(<<0>>, weight)

\* Weights::validators()
Weights_validators(weights) ==
    {validator \in DOMAIN weights : weight_is_positive(weights[validator])}

\* Weights::weight(validator)
Weights_weight(weights, validator) ==
    IF weight_found(weights, validator) THEN <<weights[validator]>> ELSE <<>>

\* self.weight(validator).unwrap_or(U::NAN)
weight_unwrap_or_nan(weights, validator) ==
    IF Weights_weight(weights, validator) = <<>> THEN <<>>
    ELSE Weights_weight(weights, validator)[1]

\* Weights::sum_weight_validators(validators): the fold, over the validators
\* in the order in which the set iterates
RECURSIVE sum_weight_validators(_, _)
sum_weight_validators(weights, validators) ==
    IF validators = <<>> THEN <<0>>
    ELSE LET n == Len(validators)
         IN  nan_add(sum_weight_validators(weights, SubSeq(validators, 1, n - 1)),
                     weight_unwrap_or_nan(weights, validators[n]))

\* what a call leaves behind
WeightsReturned(op, arg, ret, map) ==
    /\ weights_call' = [op |-> op, arg |-> arg, ret |-> ret, before |-> hash_map]
    /\ hash_map' = map
    /\ UNCHANGED <<admission_vars, depends_vars, identity_vars, ghost_vars,
                   oracle_vars, round_vars, from_vars, latest_vars, par_vars, share_vars>>

\* Weights::insert(k, v)
CallInsert(k, v) ==
    WeightsReturned("insert", <<k, v>>, <<TRUE>>,
                    [x \in DOMAIN hash_map \cup {k} |->
                        IF x = k THEN v ELSE hash_map[x]])

\* Weights::validators()
CallValidators ==
    WeightsReturned("validators", <<>>, Weights_validators(hash_map), hash_map)

\* Weights::weight(validator)
CallWeight(validator) ==
    WeightsReturned("weight", <<validator>>, Weights_weight(hash_map, validator),
                    hash_map)

\* Weights::sum_all_weights()
CallSumAllWeights ==
    \E validators \in KeyOrders(Weights_validators(hash_map)) :
        WeightsReturned("sum_all_weights", <<>>,
                        sum_weight_validators(hash_map, validators), hash_map)

\* Weights::sum_weight_validators(validators) called from outside
CallSumWeightValidators ==
    \E set \in SUBSET (WeightsValidators \cup {3}) :
        \E validators \in KeyOrders(set) :
            WeightsReturned("sum_weight_validators", set,
                            sum_weight_validators(hash_map, validators), hash_map)

NextWeights ==
    \/ \E k \in WeightsValidators, v \in WeightUnits : CallInsert(k, v)
    \/ CallValidators
    \/ \E validator \in WeightsValidators : CallWeight(validator)
    \/ CallSumAllWeights
    \/ CallSumWeightValidators

SpecWeights == InitWeights /\ [][NextWeights]_vars

-----------------------------------------------------------------------------
(* LatestMsgs on its own: any sequence of calls of update from the empty map *)

InitLatest ==
    /\ InitAdmissionIdle
    /\ InitDependsIdle
    /\ InitIdentityIdle
    /\ InitGhostIdle
    /\ InitOracleIdle
    /\ InitRoundIdle
    /\ InitFromIdle
    /\ InitWeightsIdle
    /\ InitParIdle
    /\ InitShareIdle
    /\ lm_latest_msgs = LatestMsgs_empty
    /\ lm_queue = <<>>
    /\ lm_j = <<>>
    /\ lm_update = <<>>

\* the call once update returned updated, <<the map, the value returned>>
UpdateReturned(new_msg, updated) ==
    /\ lm_update' = [new_msg |-> new_msg, before |-> lm_latest_msgs,
                     ret |-> updated[2]]
    /\ lm_latest_msgs' = updated[1]

\* latest_msgs.update(new_msg)
Update(new_msg) ==
    /\ UpdateReturned(new_msg, LatestMsgs_update(lm_latest_msgs, new_msg))
    /\ UNCHANGED <<lm_queue, lm_j>>
    /\ UNCHANGED <<admission_vars, depends_vars, identity_vars, ghost_vars,
                   oracle_vars, round_vars, from_vars, weights_vars, par_vars, share_vars>>

NextLatest == \E new_msg \in Messages : Update(new_msg)

SpecLatest == InitLatest /\ [][NextLatest]_vars

-----------------------------------------------------------------------------
(* LatestMsgs::from(j) step by step: one iteration of the while loop at a   *)
(* time, on a justification that holds messages in any order.  The vector   *)
(* of a message's justification is iterated in the order it was built in,   *)
(* which the content of the message does not tell: any order.               *)

MaxJustification == 3

\* a message of validator 1 on a vote of validator 2, and the next message of
\* validator 1 on its own previous message only
w1      == Message_new(1, {v2}, 1)
w1_next == Message_new(1, {w1}, 1)

ClosureMessages == {v0, v0_prime, m0, v2, w1, w1_next}

\* the vectors of at most MaxJustification distinct messages
Justifications ==
    UNION {KeyOrders(S) : S \in {T \in SUBSET ClosureMessages :
                                    Cardinality(T) <= MaxJustification}}

\* let mut latest_msgs = LatestMsgs::empty(); let mut queue = j.iter().collect()
InitLatestFrom ==
    /\ InitAdmissionIdle
    /\ InitDependsIdle
    /\ InitIdentityIdle
    /\ InitGhostIdle
    /\ InitOracleIdle
    /\ InitRoundIdle
    /\ InitFromIdle
    /\ InitWeightsIdle
    /\ InitParIdle
    /\ InitShareIdle
    /\ \E j \in Justifications :
          /\ lm_j = <<j>>
          /\ lm_queue = j
    /\ lm_latest_msgs = LatestMsgs_empty
    /\ lm_update = <<>>

\* the queue that puts the message back when update returned false
queue_after_pop_requeue(queue, updated, pushed) ==
    IF updated THEN Tail(queue) \o pushed ELSE Append(Tail(queue), Head(queue))

\* the queue after the body of the loop: the head is popped and, when update
\* returned true, the justification of the head is pushed at the back
queue_after_pop(queue, updated, pushed) ==
    IF updated THEN Tail(queue) \o pushed ELSE Tail(queue)

\* one iteration of while let Some(msg) = queue.pop_front()
FromIteration ==
    /\ lm_j # <<>>
    /\ lm_queue # <<>>
    /\ \E pushed \in KeyOrders(Head(lm_queue).justification) :
          /\ UpdateReturned(Head(lm_queue),
                            LatestMsgs_update(lm_latest_msgs, Head(lm_queue)))
          /\ lm_queue' = queue_after_pop(
                             lm_queue,
                             LatestMsgs_update(lm_latest_msgs, Head(lm_queue))[2],
                             pushed)
    /\ UNCHANGED lm_j
    /\ UNCHANGED <<admission_vars, depends_vars, identity_vars, ghost_vars,
                   oracle_vars, round_vars, from_vars, weights_vars, par_vars, share_vars>>

SpecLatestFrom == InitLatestFrom /\ [][FromIteration]_vars

\* the loop runs on: nothing stops the thread between two iterations
SpecLatestFromFair == SpecLatestFrom /\ WF_vars(FromIteration)

-----------------------------------------------------------------------------
(* depends worker by worker: par_iter hands each entry of a justification   *)
(* to a worker; the worker tests the entry against visited under the read   *)
(* lock (filter) and later, under the write lock, inserts it and calls       *)
(* recurse on it (the closure of any).  Workers run in any order, and they   *)
(* may go on after one of them found rhs.                                    *)

NoWorker == [m \in DagMessages |-> 0]

\* recurse(lhs, rhs, visited) up to par_iter: filter is the bag of the entries
\* handed to workers, found tells that justification.contains(rhs)
recurse_enter(lhs, rhs, filter, found) ==
    [found |-> found \/ rhs \in lhs.justification,
     filter |-> IF rhs \in lhs.justification THEN filter
                ELSE [m \in DagMessages |->
                        IF m \in lhs.justification THEN filter[m] + 1 ELSE filter[m]]]

\* let visited = Arc::new(RwLock::new(HashSet::new())); recurse(self, rhs, visited)
InitPar ==
    /\ InitAdmissionIdle
    /\ InitDependsIdle
    /\ InitIdentityIdle
    /\ InitGhostIdle
    /\ InitOracleIdle
    /\ InitRoundIdle
    /\ InitFromIdle
    /\ InitWeightsIdle
    /\ InitLatestIdle
    /\ InitShareIdle
    /\ \E lhs \in DagMessages, rhs \in DagMessages :
          /\ par_call = <<lhs, rhs>>
          /\ par_found = recurse_enter(lhs, rhs, NoWorker, FALSE).found
          /\ par_filter = recurse_enter(lhs, rhs, NoWorker, FALSE).filter
          /\ par_traversed = [m \in DagMessages |-> IF m = lhs THEN 1 ELSE 0]
    /\ par_visited = {}
    /\ par_any = NoWorker

\* .filter(|lhs_prime| visited.read().map(|v| !v.contains(lhs_prime)))
FilterWorker(lhs_prime) ==
    /\ par_filter[lhs_prime] > 0
    /\ par_filter' = [par_filter EXCEPT ![lhs_prime] = @ - 1]
    /\ par_any' = IF lhs_prime \in par_visited THEN par_any
                  ELSE [par_any EXCEPT ![lhs_prime] = @ + 1]
    /\ UNCHANGED <<par_call, par_visited, par_traversed, par_found>>
    /\ UNCHANGED <<admission_vars, depends_vars, identity_vars, ghost_vars,
                   oracle_vars, round_vars, from_vars, weights_vars, latest_vars, share_vars>>

\* the worker once it entered recurse(lhs_prime, ..): entered is what
\* recurse_enter returned
AnyEntered(lhs_prime, entered) ==
    /\ par_visited' = par_visited \cup {lhs_prime}
    /\ par_traversed' = [par_traversed EXCEPT ![lhs_prime] = @ + 1]
    /\ par_found' = entered.found
    /\ par_filter' = entered.filter

\* .any(|lhs_prime| { visited.write().map(|mut v| v.insert(lhs_prime));
\*                    recurse(lhs_prime, rhs, visited) })
AnyWorker(lhs_prime) ==
    /\ par_any[lhs_prime] > 0
    /\ par_any' = [par_any EXCEPT ![lhs_prime] = @ - 1]
    /\ AnyEntered(lhs_prime,
                  recurse_enter(lhs_prime, par_call[2], par_filter, par_found))
    /\ UNCHANGED par_call
    /\ UNCHANGED <<admission_vars, depends_vars, identity_vars, ghost_vars,
                   oracle_vars, round_vars, from_vars, weights_vars, latest_vars, share_vars>>

NextPar ==
    \/ \E lhs_prime \in DagMessages : FilterWorker(lhs_prime)
    \/ \E lhs_prime \in DagMessages : AnyWorker(lhs_prime)

SpecPar == InitPar /\ [][NextPar]_vars

-----------------------------------------------------------------------------
(* Two States on one Weights.  Weights is Arc<RwLock<HashMap>>: a State     *)
(* holds the allocation its Weights points to, and every read and write of  *)
(* its weights goes to the HashMap of that allocation.                      *)

\* a clone that copies the HashMap: <<the allocations, the new Weights>>
Weights_clone_deep(arcs, weights) == <<Append(arcs, arcs[weights]), Len(arcs) + 1>>

\* #[derive(Clone)] of Weights, Arc::clone: <<the allocations, the new Weights>>
Weights_clone(arcs, weights) == <<arcs, weights>>

\* Weights::new(weights), Arc::new: <<the allocations, the new Weights>>
Weights_new(arcs, weights) == <<Append(arcs, weights), Len(arcs) + 1>>

\* the State as a call reads it: self.read() gives the HashMap behind the Arc
read(arcs, st) == [st EXCEPT !.validators_weights = arcs[@]]

\* the allocations and the State a call leaves: self.write() changes the
\* HashMap behind the Arc, the State keeps its Arc
write(arcs, st, st_after) ==
    [arcs |-> [arcs EXCEPT ![st.validators_weights] = st_after.validators_weights],
     st |-> [st_after EXCEPT !.validators_weights = st.validators_weights]]

Holders == 1..2

\* the weights of two validators, the second of weight 1
ShareWeightMaps == {w \in WeightMaps : DOMAIN w = {0, 1} /\ w[1] = 1}

\* Weights::new of a HashMap, one State made with it and one with its clone
InitShared(w, t, new, clone) ==
    /\ sh_arcs = clone[1]
    /\ sh_states = <<State_new(new[2], 0, LatestMsgs_empty, t, {}),
                     State_new(clone[2], 0, LatestMsgs_empty, t, {})>>
    /\ sh_justifications = << <<>>, <<>> >>
    /\ sh_last = <<>>

InitShare ==
    /\ InitAdmissionIdle
    /\ InitDependsIdle
    /\ InitIdentityIdle
    /\ InitGhostIdle
    /\ InitOracleIdle
    /\ InitRoundIdle
    /\ InitFromIdle
    /\ InitWeightsIdle
    /\ InitLatestIdle
    /\ InitParIdle
    /\ \E w \in ShareWeightMaps, t \in 0..MaxThr :
          InitShared(w, t, Weights_new(<<>>, w),
                     Weights_clone(Weights_new(<<>>, w)[1], Weights_new(<<>>, w)[2]))

\* a call made through the State of holder returned r
ShareReturned(op, holder, msg, r, w) ==
    /\ Len(r.j) <= MaxJustLen
    /\ sh_arcs' = w.arcs
    /\ sh_states' = [sh_states EXCEPT ![holder] = w.st]
    /\ sh_justifications' = [sh_justifications EXCEPT ![holder] = r.j]
    /\ sh_last' = [op |-> op, holder |-> holder, msg |-> msg, ret |-> r.ret,
                   is_equivocation |-> equivocate(sh_states[holder].latest_msgs, msg),
                   arcs |-> sh_arcs]
    /\ UNCHANGED <<admission_vars, depends_vars, identity_vars, ghost_vars, oracle_vars, round_vars, from_vars, weights_vars, latest_vars, par_vars>>

ShareCall(op, holder, msg, r) ==
    ShareReturned(op, holder, msg, r, write(sh_arcs, sh_states[holder], r.st))

\* j.faulty_insert_with_slash(msg, &mut state)
ShareSlash(holder, msg) ==
    ShareCall("faulty_insert_with_slash", holder, msg,
              faulty_insert_with_slash([j |-> sh_justifications[holder],
                                        st |-> read(sh_arcs, sh_states[holder])], msg))

\* j.faulty_insert(msg, &mut state)
ShareInsert(holder, msg) ==
    ShareCall("faulty_insert", holder, msg,
              faulty_insert([j |-> sh_justifications[holder],
                             st |-> read(sh_arcs, sh_states[holder])], msg))

\* state.update(&[msg])
ShareUpdated(holder, msg, u) ==
    ShareCall("update", holder, msg,
              [j |-> sh_justifications[holder], st |-> u[1], ret |-> u[2]])

ShareUpdate(holder, msg) ==
    ShareUpdated(holder, msg, State_update(read(sh_arcs, sh_states[holder]), <<msg>>))

\* two competing votes of one validator and a vote of another
ShareMessages == {v0, v0_prime, v1}

NextShare ==
    \/ \E holder \in Holders, msg \in ShareMessages : ShareSlash(holder, msg)
    \/ \E holder \in Holders, msg \in ShareMessages : ShareInsert(holder, msg)
    \/ \E holder \in Holders, msg \in ShareMessages : ShareUpdate(holder, msg)

SpecShare == InitShare /\ [][NextShare]_vars

-----------------------------------------------------------------------------
(* Properties of the admission machine *)

Tips(st, v) == IF v \in DOMAIN st.latest_msgs THEN st.latest_msgs[v] ELSE {}

RECURSIVE SumOver(_, _)
SumOver(S, f) ==
    IF S = {} THEN 0
    ELSE LET s == CHOOSE x \in S : TRUE
         IN  WAdd(f[s], SumOver(S \ {s}, f))

\* the weight the call observed in last read for the sender of its message
ObservedWeight ==
    IF last.arg.sender \in DOMAIN last.st.validators_weights
    THEN last.st.validators_weights[last.arg.sender]
    ELSE INFINITY

\* the observed call is a faulty_insert of a message that equivocates with a
\* latest message of the State it was made on
ObservedEquivocation ==
    /\ last.op = "faulty_insert"
    /\ \E t \in Tips(last.st, last.arg.sender) :
          /\ t # last.arg
          /\ ~depends(t, last.arg)
          /\ ~depends(last.arg, t)

\* C1: after any sequence of faulty_insert, faulty_inserts and State::update
\* calls (and of faulty_insert_with_slash) from a State whose fault weight is
\* within the threshold, state_fault_weight <= threshold.
C1_FaultWeightWithinThreshold ==
    state.state_fault_weight <= state.thr

\* The budget is used up to the threshold and a further equivocation, installed
\* by State::update, is left out of the accounting.
C1_Witness ==
    /\ state.thr > 0
    /\ state.state_fault_weight = state.thr
    /\ state.equivocators # {}
    /\ \E v \in DOMAIN state.latest_msgs :
          v \notin state.equivocators /\ Cardinality(state.latest_msgs[v]) > 1

\* C2 as stated: state_fault_weight is the sum, over all the senders in
\* equivocators, of the weight each had when it entered equivocators.
C2_SumOverAllEquivocators ==
    state.state_fault_weight = SumOver(state.equivocators, inclusion_weight)

\* C2 amended: state_fault_weight is the sum, over the senders that entered
\* equivocators in faulty_insert, faulty_inserts or State::update, of the weight
\* each had at that moment; a sender that entered equivocators in
\* faulty_insert_with_slash contributes nothing.
C2_SumOverBudgetEquivocators ==
    state.state_fault_weight =
        SumOver(state.equivocators \ slashed_in, inclusion_weight)

\* Two equivocators, one that entered on the budget and one that was slashed
C2_Witness ==
    /\ state.equivocators \ slashed_in # {}
    /\ state.equivocators \cap slashed_in # {}
    /\ state.state_fault_weight > 0

C4_RefusalChangesNothing ==
    (last.op = "faulty_insert" /\ ~last.ret)
    => justification = last.j /\ state = last.st

\* A message refused on the budget (it is not in the justification)
C4_Witness ==
    /\ last.op = "faulty_insert"
    /\ ~last.ret
    /\ last.arg \notin Range(last.j)

\* C5: an equivocating message whose sender has no weight and is not in
\* equivocators is refused by faulty_insert, and state_fault_weight is unchanged.
C5_UnknownSenderRefused ==
    (/\ ObservedEquivocation
     /\ last.arg.sender \notin DOMAIN last.st.validators_weights
     /\ last.arg.sender \notin last.st.equivocators)
    => /\ ~last.ret
       /\ state.state_fault_weight = last.st.state_fault_weight

\* Such a call, on a State with budget left
C5_Witness ==
    /\ ObservedEquivocation
    /\ last.arg.sender \notin DOMAIN last.st.validators_weights
    /\ last.arg.sender \notin last.st.equivocators
    /\ last.arg \notin Range(last.j)
    /\ last.st.state_fault_weight < last.st.thr

\* C6: a message, not in the justification, of a sender already in
\* equivocators is admitted by faulty_insert whatever the budget; and a
\* faulty_insert changes state_fault_weight only when it puts the sender in
\* equivocators, which never loses a member: each sender's weight is added at
\* most once.
C6_KnownEquivocatorAdmitted ==
    last.op = "faulty_insert"
    => /\ (last.arg.sender \in last.st.equivocators /\ last.arg \notin Range(last.j))
            => /\ last.ret
               /\ last.arg \in Range(justification)
               /\ state.state_fault_weight = last.st.state_fault_weight
       /\ last.st.equivocators \subseteq state.equivocators
       /\ state.state_fault_weight # last.st.state_fault_weight
            => /\ last.arg.sender \notin last.st.equivocators
               /\ last.arg.sender \in state.equivocators
               /\ state.state_fault_weight =
                     last.st.state_fault_weight + ObservedWeight

\* A further equivocating message of a known equivocator, admitted with no
\* budget left
C6_Witness ==
    /\ ObservedEquivocation
    /\ last.arg.sender \in last.st.equivocators
    /\ last.arg \notin Range(last.j)
    /\ last.st.state_fault_weight = last.st.thr
    /\ last.ret

\* C7: the messages of one validator's set are all sent by that validator and
\* pairwise incomparable under depends.
C7_TipsIncomparable ==
    \A v \in DOMAIN state.latest_msgs :
        \A a, b \in state.latest_msgs[v] :
            /\ a.sender = v
            /\ a # b => ~depends(a, b)

\* C8: every admitted message is a latest message of its sender or is depended
\* on by one.
C8_AdmittedCovered ==
    \A m \in admitted :
        \E t \in Tips(state, m.sender) : t = m \/ depends(t, m)

\* An admitted message that is no longer a latest message
C8_Witness ==
    \E m \in admitted :
        /\ m \notin Tips(state, m.sender)
        /\ m \in Range(justification)

\* C9: from_latest_msgs holds m iff m.sender is not in equivocators and
\* latest[m.sender] = {m}: at most one message per validator.
C9_HonestProjection ==
    LET honest == from_latest_msgs(state.latest_msgs, state.equivocators) IN
    /\ \A m \in Messages :
          m \in honest <=> /\ m.sender \notin state.equivocators
                           /\ Tips(state, m.sender) = {m}
    /\ honest \subseteq Messages
    /\ \A a, b \in honest : a.sender = b.sender => a = b

\* One validator projected, one left out for having several latest
\* messages and one for being an equivocator is more than two validators
\* give: here one is projected and the other has several latest messages.
C9_Witness ==
    /\ from_latest_msgs(state.latest_msgs, state.equivocators) # {}
    /\ \E v \in DOMAIN state.latest_msgs :
          v \notin state.equivocators /\ Cardinality(state.latest_msgs[v]) > 1

-----------------------------------------------------------------------------
(* Properties of depends *)

\* the messages reachable from the set S by justification links, S included
RECURSIVE JustificationClosure(_)
JustificationClosure(S) ==
    LET further == S \cup UNION { m.justification : m \in S }
    IN  IF further = S THEN S ELSE JustificationClosure(further)

\* C10: a.depends(b) iff b is reachable from a by one or more justification
\* links; a message does not depend on itself and a message with an empty
\* justification depends on nothing.
C10_DependsIsReachability ==
    dep_result # <<>>
    => /\ dep_result[1] <=> dep_rhs \in JustificationClosure(dep_lhs.justification)
       /\ dep_lhs = dep_rhs => ~dep_result[1]
       /\ dep_lhs.justification = {} => ~dep_result[1]

\* A dependency found below the justification of the message itself
C10_Witness ==
    /\ dep_result = <<TRUE>>
    /\ dep_rhs \notin dep_lhs.justification

\* C11: a.equivocates(b) holds exactly when a # b, a and b have the same
\* sender and neither is reachable from the other by justification links; the
\* relation is symmetric and irreflexive.
C11_EquivocatesSymmetricIrreflexive ==
    eq_result # <<>>
    => /\ eq_result[1] <=>
            /\ dep_lhs # dep_rhs
            /\ dep_lhs.sender = dep_rhs.sender
            /\ dep_rhs \notin JustificationClosure(dep_lhs.justification)
            /\ dep_lhs \notin JustificationClosure(dep_rhs.justification)
       /\ eq_result[1] <=> eq_result[2]
       /\ dep_lhs = dep_rhs => ~eq_result[1]

\* Two messages of one sender, the second built on the first: no equivocation
\* in either direction
C11_Witness ==
    /\ eq_result = <<FALSE, FALSE>>
    /\ dep_lhs.sender = dep_rhs.sender
    /\ dep_lhs \in JustificationClosure(dep_rhs.justification)

\* C12: among messages built by the constructor, each on messages built
\* before it, is_circular is false of every pair, no two messages are
\* reachable from each other and no message is reachable from itself.
C12_NoCircularDependency ==
    /\ circ_result # <<>> => ~circ_result[1]
    /\ ~ /\ dep_rhs \in JustificationClosure(dep_lhs.justification)
         /\ dep_lhs \in JustificationClosure(dep_rhs.justification)
    /\ dep_lhs \notin JustificationClosure(dep_lhs.justification)

\* is_circular called on a message and one it depends on through another
C12_Witness ==
    /\ circ_result = <<FALSE>>
    /\ dep_rhs \in JustificationClosure(dep_lhs.justification)
    /\ dep_rhs \notin dep_lhs.justification

-----------------------------------------------------------------------------
(* Properties of the id *)

\* sender, estimate and the set of the ids of the justification
Constituents(m) ==
    <<m.proto.sender, m.proto.estimate,
      { m.proto.justification[i].id : i \in 1..Len(m.proto.justification) }>>

Reversed(seq) == [i \in 1..Len(seq) |-> seq[Len(seq) + 1 - i]]

\* a == b iff the ids are equal iff the constituents are the same; the id is
\* the one of the message rebuilt from the constituents, in either order of
\* the justification
IdentityOf(a, b) ==
    /\ Message_eq(a, b) <=> a.id = b.id
    /\ a.id = b.id <=> Constituents(a) = Constituents(b)
    /\ \A m \in {a, b} :
          /\ Message_new_with_id(m.proto.sender, m.proto.justification,
                                 m.proto.estimate, <<>>).id = m.id
          /\ Message_new_with_id(m.proto.sender, Reversed(m.proto.justification),
                                 m.proto.estimate, <<>>).id = m.id

-----------------------------------------------------------------------------
(* Properties of faulty_inserts and sort_by_faultweight, on the observed   *)
(* call of faulty_inserts                                                  *)

\* m conflicts with a latest message of its sender in the State st
Conflicts(st, m) ==
    \E t \in Tips(st, m.sender) :
        /\ t # m
        /\ t \notin JustificationClosure(m.justification)
        /\ m \notin JustificationClosure(t.justification)

\* the messages of the batch that conflict with a latest message while their
\* sender is not in equivocators and has no entry in the weights map
NoWeightConflicts ==
    { m \in last.arg :
        /\ m.sender \notin last.st.equivocators
        /\ m.sender \notin DOMAIN last.st.validators_weights
        /\ Conflicts(last.st, m) }

\* what faulty_inserts did with the messages of the set expected
InsertsApplied(expected) ==
    LET calls == last.ret.calls
        sorted == last.ret.sorted
    IN  /\ { calls[i][1] : i \in 1..Len(calls) } = expected
        /\ Len(calls) = Cardinality(expected)
        /\ { sorted[i] : i \in 1..Len(sorted) } = expected
        /\ Len(sorted) = Cardinality(expected)
        /\ sorted = [i \in 1..Len(calls) |-> calls[i][1]]
        /\ last.ret.admitted = { calls[i][1] : i \in { k \in 1..Len(calls) : calls[k][2] } }

\* C14 as stated: faulty_inserts applies faulty_insert exactly once to every
\* message of msgs, in the order of sort_by_faultweight, which returns each
\* input message exactly once, and returns the set of the messages for which
\* faulty_insert returned true.
C14_InsertsEveryMessageOnce ==
    last.op = "faulty_inserts" => InsertsApplied(last.arg)

\* C14 amended: the same of every message of msgs but those that, in the
\* State of the call, conflict with a latest message while their sender is not
\* in equivocators and has no entry in the weights map: sort_by_faultweight
\* leaves them out and faulty_insert is not applied to them.
C14_InsertsEveryWeightedMessageOnce ==
    last.op = "faulty_inserts" => InsertsApplied(last.arg \ NoWeightConflicts)

\* A batch with a message left out, a message refused and a message admitted
C14_Witness ==
    /\ last.op = "faulty_inserts"
    /\ NoWeightConflicts # {}
    /\ \E i, k \in 1..Len(last.ret.calls) :
          last.ret.calls[i][2] /\ ~last.ret.calls[k][2]

\* the fault weight m would add to the State of the observed call
FaultWeightAdded(m) ==
    IF m.sender \notin last.st.equivocators /\ Conflicts(last.st, m)
    THEN last.st.validators_weights[m.sender]
    ELSE 0

\* C15: sort_by_faultweight returns its messages in ascending order of the
\* fault weight each would add to the state (the weight of the sender when it
\* is not in equivocators and the message conflicts with a latest message, 0
\* otherwise) and, among equal fault weights, in ascending order of id.
C15_SortedByFaultWeightThenId ==
    last.op = "faulty_inserts"
    => LET sorted == last.ret.sorted IN
       /\ \A i \in 1..Len(sorted) : sorted[i] \in last.arg
       /\ \A i, k \in 1..Len(sorted) :
             i < k =>
                \/ FaultWeightAdded(sorted[i]) < FaultWeightAdded(sorted[k])
                \/ /\ FaultWeightAdded(sorted[i]) = FaultWeightAdded(sorted[k])
                   /\ getid(sorted[i]) < getid(sorted[k])

\* Competing votes that come out by weight against the order of their ids, after
\* a message that adds no fault weight
C15_Witness ==
    /\ last.op = "faulty_inserts"
    /\ LET sorted == last.ret.sorted IN
       /\ Len(sorted) >= 3
       /\ FaultWeightAdded(sorted[1]) = 0
       /\ \E i, k \in 1..Len(sorted) :
             /\ i < k
             /\ getid(sorted[i]) > getid(sorted[k])
             /\ FaultWeightAdded(sorted[i]) > 0

\* the orders in which the messages of the set S can be taken
Orders(S) ==
    { f \in [1..Cardinality(S) -> S] : \A i, k \in DOMAIN f : i # k => f[i] # f[k] }

\* the number of messages admitted when faulty_insert is applied in the order
\* given, from the justification and the State of the observed call
AdmittedInOrder(order) ==
    Cardinality(
        faulty_inserts_sorted([j |-> last.j, st |-> last.st], order).ret)

\* C16 as stated: for every State and every batch, faulty_inserts admits at
\* least as many messages as faulty_insert applied to the batch in any order.
C16_SortedAdmitsMost ==
    last.op = "faulty_inserts"
    => \A order \in Orders(last.arg) :
          Cardinality(last.ret.admitted) >= AdmittedInOrder(order)

DistinctSenders(msgs) == \A a, b \in msgs : a # b => a.sender # b.sender

\* C16 amended: the same for every batch that holds at most one message of each
\* sender.
C16_SortedAdmitsMostOfDistinctSenders ==
    (last.op = "faulty_inserts" /\ DistinctSenders(last.arg))
    => \A order \in Orders(last.arg) :
          Cardinality(last.ret.admitted) >= AdmittedInOrder(order)

\* A batch of distinct senders of which faulty_inserts admits more messages than
\* another order does
C16_Witness ==
    /\ last.op = "faulty_inserts"
    /\ DistinctSenders(last.arg)
    /\ \E order \in Orders(last.arg) :
          Cardinality(last.ret.admitted) > AdmittedInOrder(order)

-----------------------------------------------------------------------------
(* Properties of the threshold, with faulty_insert alone *)

\* a and b are two messages of one validator, neither built on the other
Conflicting(a, b) ==
    /\ a # b
    /\ a.sender = b.sender
    /\ b \notin JustificationClosure(a.justification)
    /\ a \notin JustificationClosure(b.justification)

\* the validators of which two conflicting messages were admitted
ConflictingSenders ==
    { a.sender : a \in { x \in admitted : \E y \in admitted : Conflicting(x, y) } }

\* C17: with every weight positive and threshold 0, no sequence of faulty_insert
\* calls admits two conflicting messages of a validator, equivocators stays
\* empty and the fault weight stays 0; with the threshold at the total weight
\* no message is refused for the budget and the fault weight is the total
\* weight of the validators of which conflicting messages were admitted.
C17_ThresholdZeroAndTotal ==
    /\ state.thr = 0
       => /\ ConflictingSenders = {}
          /\ state.equivocators = {}
          /\ state.state_fault_weight = 0
    /\ state.thr > 0
       => /\ (last.op = "faulty_insert" /\ last.arg \notin Range(last.j)) => last.ret
          /\ state.state_fault_weight =
                SumOver(ConflictingSenders, state.validators_weights)

-----------------------------------------------------------------------------
(* Properties of faulty_insert_with_slash and of State::update, on the     *)
(* observed call                                                           *)

\* C18: faulty_insert_with_slash never refuses for the budget: the message is
\* in the justification after the call (the value returned tells whether it
\* was new) and the latest messages are updated with it; when the message
\* conflicts with a latest message the sender is added to equivocators and its
\* weight set to 0 in the weights map; state_fault_weight and the threshold are
\* as before.
C18_SlashAlwaysAdmits ==
    last.op = "faulty_insert_with_slash"
    => /\ last.ret = (last.arg \notin Range(last.j))
       /\ justification = IF last.ret THEN Append(last.j, last.arg) ELSE last.j
       /\ state.latest_msgs = LatestMsgs_update(last.st.latest_msgs, last.arg)[1]
       /\ \/ last.arg \in Tips(state, last.arg.sender)
          \/ \E t \in Tips(state, last.arg.sender) :
                last.arg \in JustificationClosure(t.justification)
       /\ IF Conflicts(last.st, last.arg)
          THEN /\ state.equivocators = last.st.equivocators \cup {last.arg.sender}
               /\ DOMAIN state.validators_weights =
                     DOMAIN last.st.validators_weights \cup {last.arg.sender}
               /\ \A v \in DOMAIN state.validators_weights :
                     state.validators_weights[v] =
                        IF v = last.arg.sender THEN 0
                        ELSE last.st.validators_weights[v]
          ELSE /\ state.equivocators = last.st.equivocators
               /\ state.validators_weights = last.st.validators_weights
       /\ state.state_fault_weight = last.st.state_fault_weight
       /\ state.thr = last.st.thr

\* A conflicting message of a sender not in equivocators, whose weight does not
\* fit in the budget, is admitted and its sender slashed
C18_Witness ==
    /\ last.op = "faulty_insert_with_slash"
    /\ Conflicts(last.st, last.arg)
    /\ last.arg.sender \notin last.st.equivocators
    /\ last.arg.sender \in DOMAIN last.st.validators_weights
    /\ last.st.validators_weights[last.arg.sender] + last.st.state_fault_weight
          > last.st.thr
    /\ last.ret
    /\ state.validators_weights[last.arg.sender] = 0

\* the weight State::update reads for the sender of the observed message
UpdateWeight ==
    IF last.arg[1].sender \in DOMAIN last.st.validators_weights
    THEN last.st.validators_weights[last.arg[1].sender]
    ELSE INFINITY

\* C19: State::update never refuses a message: the latest messages are updated
\* with it whatever the budget; when it conflicts with a latest message and
\* weight + fault weight <= threshold the sender is added to equivocators and,
\* if it was not there, its weight added to the fault weight; when the budget
\* would be crossed the message is still installed as one more latest message
\* and equivocators and the fault weight are as before.
C19_UpdateNeverRefuses ==
    last.op = "update"
    => LET m == last.arg[1]
           fits == UpdateWeight + last.st.state_fault_weight <= last.st.thr
           enters == /\ Conflicts(last.st, m)
                     /\ fits
                     /\ m.sender \notin last.st.equivocators
       IN  /\ state.latest_msgs = LatestMsgs_update(last.st.latest_msgs, m)[1]
           /\ \/ m \in Tips(state, m.sender)
              \/ \E t \in Tips(state, m.sender) :
                    m \in JustificationClosure(t.justification)
           /\ state.equivocators =
                 IF enters THEN last.st.equivocators \cup {m.sender}
                 ELSE last.st.equivocators
           /\ state.state_fault_weight =
                 IF enters THEN last.st.state_fault_weight + UpdateWeight
                 ELSE last.st.state_fault_weight
           /\ (Conflicts(last.st, m) /\ ~fits)
              => /\ m \in Tips(state, m.sender)
                 /\ Cardinality(Tips(state, m.sender)) >= 2
           /\ state.thr = last.st.thr
           /\ state.validators_weights = last.st.validators_weights
           /\ justification = last.j

\* A conflicting message that does not fit in the budget and is installed
C19_Witness ==
    /\ last.op = "update"
    /\ Conflicts(last.st, last.arg[1])
    /\ last.arg[1].sender \notin last.st.equivocators
    /\ UpdateWeight + last.st.state_fault_weight > last.st.thr
    /\ last.arg[1] \in Tips(state, last.arg[1].sender)
    /\ last.arg[1] \notin Tips(last.st, last.arg[1].sender)

-----------------------------------------------------------------------------
(* Properties of the fork choice *)

\* the blocks of the chain that ends in block
RECURSIVE Chain(_)
Chain(block) ==
    IF block.prevblock = <<>> THEN {block}
    ELSE {block} \cup Chain(block.prevblock[1])

\* the block tree of the latest messages and the children of a block in it
TreeBlocks == UNION { Chain(b) : b \in ghost_latest }

TreeChildren(block) == { c \in TreeBlocks : c.prevblock = <<block>> }

\* the senders whose latest block is block or is built on it, and their weight
Endorsers(block) == { l.sender : l \in { x \in ghost_latest : block \in Chain(x) } }

EndorsedWeight(block) == SumOver(Endorsers(block), ghost_weights)

\* the blocks a descent from block can end in when it continues, at every
\* block, into a child of maximal endorsed weight
RECURSIVE HeaviestTips(_)
HeaviestTips(block) ==
    IF TreeChildren(block) = {} THEN {block}
    ELSE UNION { HeaviestTips(c) :
                   c \in { x \in TreeChildren(block) :
                             \A y \in TreeChildren(block) :
                                EndorsedWeight(y) <= EndorsedWeight(x) } }

\* C20: ghost returns a block reached from the root of the block tree of the
\* latest honest messages by continuing, at every block, into a child whose
\* endorsers weigh the most among its siblings; with a single latest block it
\* returns that block.
C20_GhostFollowsHeaviest ==
    ghost_result # <<>>
    => /\ ghost_result[1] # <<>>
       /\ ghost_result[1][1] \in HeaviestTips(genesis_block)
       /\ Cardinality(ghost_latest) = 1 => ghost_result[1] = <<CHOOSE b \in ghost_latest : TRUE>>

\* what parse_blockchains made of the latest blocks in the observed call
Parsed == parse_blockchains(ghost_keys)

\* the weight of the endorsers of a block in the parsed tree
ParsedWeight(block) ==
    SumOver(collect_validators(block, Parsed.visited, {}, Parsed.latest_blocks),
            ghost_weights)

\* among the candidates, the one of maximal weight and, of these, of smallest id
SmallestIdOfHeaviest(candidates) ==
    CHOOSE x \in candidates :
        \A y \in candidates \ {x} :
            \/ ParsedWeight(y) < ParsedWeight(x)
            \/ ParsedWeight(y) = ParsedWeight(x) /\ Block_id(x) < Block_id(y)

\* the block a descent through the parsed tree ends in when every fork is
\* decided by weight and ties by the smallest id
RECURSIVE TieBrokenTip(_)
TieBrokenTip(candidates) ==
    LET chosen == SmallestIdOfHeaviest(candidates)
    IN  IF Parsed.visited[chosen] = {} THEN chosen
        ELSE TieBrokenTip(Parsed.visited[chosen])

\* C21: at a fork whose heaviest candidates have the same weight, whatever that
\* weight is, ghost continues into the one of smallest block id and does not
\* return none.
C21_TieBrokenBySmallestId ==
    ghost_result # <<>>
    => ghost_result[1] = <<TieBrokenTip(Parsed.genesis)>>

\* C22: for the same latest blocks and weights, ghost returns the same block
\* whatever the order of the keys in the queue and of the blocks in a fork.
C22_GhostDeterministic ==
    ghost_result # <<>>
    => \A keys \in KeyOrders(ghost_latest), order \in IterationOrders :
          ghost(keys, order, ghost_weights) = ghost_result[1]

\* C34: parse_blockchains returns a genesis set that holds only blocks whose
\* prevblock is None and a map of children in which every visited block that
\* has a prevblock is a child of that prevblock, for every set of latest
\* blocks and every order in which they are put in the queue
C34_ParsedTreeSound ==
    ghost_result # <<>>
    => /\ \A b \in Parsed.genesis : b.prevblock = <<>>
       /\ \A b \in DOMAIN Parsed.visited :
             b.prevblock # <<>>
             => /\ b.prevblock[1] \in DOMAIN Parsed.visited
                /\ b \in Parsed.visited[b.prevblock[1]]

\* a block of the parsed tree and the blocks below it in the map of children
RECURSIVE ParsedSubtree(_)
ParsedSubtree(block) ==
    {block} \cup (IF block \in DOMAIN Parsed.visited
                  THEN UNION {ParsedSubtree(c) : c \in Parsed.visited[block]}
                  ELSE {})

\* the senders whose latest block is the block or one below it in the parsed tree
ParsedEndorsers(block) ==
    {l.sender : l \in ghost_latest \cap ParsedSubtree(block)}

C39_GhostReturnsLatestLeaf ==
    (ghost_result # <<>> /\ ghost_latest # {}
        /\ \A s \in BlockSenders : ghost_weights[s] > 0)
    => /\ ghost_result[1] # <<>>
       /\ ghost_result[1][1] \in DOMAIN Parsed.visited
       /\ Parsed.visited[ghost_result[1][1]] = {}
       /\ ghost_result[1][1] \in ghost_latest

\* a call on latest blocks of which one is built on another and one is on
\* another branch
C39_Witness ==
    /\ ghost_result # <<>>
    /\ ghost_result[1] # <<>>
    /\ \E a, b, c \in ghost_latest :
          /\ a.prevblock = <<b>>
          /\ c.prevblock = b.prevblock
          /\ c # b
          /\ ghost_result[1][1] \in {a, c}

-----------------------------------------------------------------------------
(* Properties of the safety oracles *)

\* the latest message of validator v in chain_state, as a set: empty when the
\* State has none for v
StateLatest(v) == Tips(chain_state, v)

\* the messages of validator v a justification reaches that no other message
\* of v it reaches depends on: the latest messages of v in the justification
LatestIn(v, just) ==
    LET reached == JustificationClosure(just)
    IN  {m \in reached :
            /\ m.sender = v
            /\ \A n \in reached : n.sender = v => ~depends(n, m)}

\* validator u, by its latest message, has seen validator v agree on the
\* target: v has a latest message in the justification of the latest message
\* of u, and its block has the target in its chain
SeesAgree(u, v) ==
    \A mu \in StateLatest(u) :
        /\ LatestIn(v, mu.justification) # {}
        /\ \A mv \in LatestIn(v, mu.justification) :
                oracle_target \in Chain(mv.estimate)

\* the latest message of validator u is one honest message on the target
Agrees(u) ==
    /\ u \notin chain_state.equivocators
    /\ Cardinality(StateLatest(u)) = 1
    /\ \A mu \in StateLatest(u) : oracle_target \in Chain(mu.estimate)

AgreeingSenders == {u \in ChainValidators : Agrees(u)}

MutualAgreement(u, v) == SeesAgree(u, v) /\ SeesAgree(v, u)

\* the cliques of the mutual-agreement graph on the agreeing senders, and the
\* maximal ones
AgreementCliques ==
    {c \in SUBSET AgreeingSenders :
        /\ c # {}
        /\ \A u, v \in c : u # v => MutualAgreement(u, v)}

MaximalAgreementCliques ==
    {c \in AgreementCliques :
        \A d \in AgreementCliques : ~(c \subseteq d /\ c # d)}

\* the summed weight of a set of validators
CliqueWeight(c) == SumOver(c, chain_state.validators_weights)

\* C24: safety_oracles returns exactly the maximal cliques of the
\* mutual-agreement graph on all agreeing senders whose summed weight exceeds
\* the threshold.
C24_OraclesAreMaximalCliques ==
    oracle_out # <<>>
    => oracle_out[1] = {c \in MaximalAgreementCliques : CliqueWeight(c) > oracle_thr}

\* C25: every set safety_oracles returns has a summed weight strictly greater
\* than the threshold; a clique whose weight is the threshold is not returned.
C25_OraclesAboveThreshold ==
    oracle_out # <<>>
    => \A clique \in oracle_out[1] : CliqueWeight(clique) > oracle_thr

\* a maximal clique of two members whose weight is the threshold was left out
\* while a heavier one was returned
C25_Witness ==
    /\ oracle_out # <<>>
    /\ oracle_out[1] # {}
    /\ \E c \in MaximalAgreementCliques :
            /\ Cardinality(c) = 2
            /\ CliqueWeight(c) = oracle_thr
            /\ c \notin oracle_out[1]

\* the message the last call of from_msgs added to the State: the one built
\* before the last
LastInserted == chain[Len(chain) - 1]

\* between the State before the last call and the State after it, the one
\* latest message that changed advanced along a chain that has the target
AdvancedOnTarget ==
    /\ Len(chain) >= 2
    /\ oracle_target \in Chain(LastInserted.estimate)
    /\ \A older \in {chain[i] : i \in 1..(Len(chain) - 2)} :
            older.sender = LastInserted.sender => depends(LastInserted, older)

\* C26: when the validators only advanced their latest messages along chains
\* that have the target, the oracles do not shrink: every set returned before
\* is returned after, so it is contained in a set returned after.
C26_CliquesDoNotShrink ==
    (oracle_prev # <<>> /\ oracle_out # <<>> /\ AdvancedOnTarget)
    => \A before \in oracle_prev[1] :
          \E after \in oracle_out[1] : before \subseteq after

\* the setting of the test: equal weights, threshold 1, the genesis block asked
\* for, and the blocks built in the order of the test
TestSetting ==
    /\ \A v \in ChainValidators : chain_state.validators_weights[v] = 1
    /\ oracle_thr = 1
    /\ oracle_target = genesis_block
    /\ \A i \in 2..Len(chain) : chain[i].sender = TestSenders[i - 1]

\* C27: three validators of equal weight extend one chain in the order s1, s0,
\* s1, s2, s1, s2, s0, s2, s0 on the genesis block of s0.  The oracles of the
\* genesis block for threshold 1 are {{s0, s1}} once the third block is built
\* and not before, still {{s0, s1}} after the two blocks that follow, {{s0, s1},
\* {s1, s2}} after the sixth block, and {{s0, s1, s2}} after the ninth.
C27_TestScenario ==
    (TestSetting /\ oracle_out # <<>>)
    => /\ Len(chain) \in 2..3 => oracle_out[1] = {}
       /\ Len(chain) \in 4..6 => oracle_out[1] = {{0, 1}}
       /\ Len(chain) = 7 => oracle_out[1] = {{0, 1}, {1, 2}}
       /\ Len(chain) = 10 => oracle_out[1] = {{0, 1, 2}}

\* the nine blocks of the test are built and the one clique of all three
\* validators is returned
C27_Witness ==
    /\ TestSetting
    /\ Len(chain) = 10
    /\ oracle_prev # <<>>
    /\ oracle_out = <<{{0, 1, 2}}>>

-----------------------------------------------------------------------------
(* Properties of the round robin *)

\* the latest honest messages of the State of a validator, as full_consensus
\* takes them
LatestHonestOf(v) == from_latest_msgs(round_states[v].latest_msgs, {})

\* the values the estimator can give on the State of a validator
EstimatesOf(v) == {VoteCount_estimate(latest_msgs) : latest_msgs \in KeyOrders(LatestHonestOf(v))}

\* C28: n honest validators of equal weight start from their own votes and
\* send in round-robin order, every message delivered to all; after n messages
\* every State has the same latest honest messages and the estimator gives the
\* same value in all of them.
C28_RoundRobinConverges ==
    round_sent = Cardinality(RoundValidators)
    => \A u, v \in RoundValidators :
          /\ LatestHonestOf(u) = LatestHonestOf(v)
          /\ EstimatesOf(u) = EstimatesOf(v)
          /\ Cardinality(EstimatesOf(u)) = 1

\* three validators or more that did not vote the same have all sent, and the
\* one estimate counts a vote of each
C28_Witness ==
    /\ Cardinality(RoundValidators) >= 3
    /\ round_sent = Cardinality(RoundValidators)
    /\ \E u, v \in RoundValidators : round_votes[u] # round_votes[v]
    /\ \A v \in RoundValidators :
          \A e \in EstimatesOf(v) : e.yes + e.no = Cardinality(RoundValidators)

-----------------------------------------------------------------------------
(* Properties of from_msgs *)

\* the estimator returned an error on the latest honest messages of the State
\* faulty_inserts left
EstimatorFailed ==
    \E latest_msgs \in estimator_orders(
                           from_estimator,
                           from_latest_msgs(from_call.inserted_state.latest_msgs,
                                            from_call.inserted_state.equivocators)) :
        estimate_with(from_estimator, latest_msgs,
                      from_call.inserted_state.validators_weights) = <<>>

NoneAdmitted == from_call.new_msgs # {} /\ from_call.admitted = {}

\* the senders that equivocate in what the call is given and what the State
\* held, and that the State did not count yet
EquivocatingSenders ==
    LET seen == from_call.new_msgs \cup all_latest(from_call.sender_state)
    IN  {m.sender : m \in {x \in from_call.new_msgs :
                              \E y \in seen : equivocates(x, y)}}
            \ from_call.sender_state.equivocators

\* the threshold covers the weight of every equivocating sender
ThresholdCovers ==
    /\ \A s \in EquivocatingSenders :
            weight_found(from_call.sender_state.validators_weights, s)
    /\ from_call.sender_state.state_fault_weight
         + sum_weight_senders(from_call.sender_state.validators_weights,
                              EquivocatingSenders)
         <= from_call.sender_state.thr

\* what holds of the message an Ok carries
ProducedFromAdmitted ==
    from_call.result # <<>> =>
        LET msg == from_call.result[1].msg
        IN  /\ msg.justification = from_call.admitted
            /\ msg.sender = from_call.sender
            /\ from_call.admitted \subseteq from_call.new_msgs
            /\ \A m \in from_call.admitted : depends(msg, m)
            /\ ThresholdCovers =>
                    \A m \in from_call.new_msgs : ~equivocates(m, msg)

\* C29 as stated: from_msgs returns an error if and only if new_msgs is not
\* empty and faulty_inserts admitted none of its messages; otherwise the
\* justification of the message produced is the set of the admitted messages,
\* the message depends on each of them and, when the threshold covers the
\* weight of every equivocating sender, no message of new_msgs equivocates
\* with it
C29_ErrorIffNoneAdmitted ==
    from_call # <<>> =>
        /\ from_call.result = <<>> <=> NoneAdmitted
        /\ ProducedFromAdmitted

\* C29, amended: from_msgs returns an error if and only if new_msgs is not
\* empty and faulty_inserts admitted none of its messages, or the estimator
\* returned an error on the latest honest messages of the State that
\* faulty_inserts left; otherwise the justification of the message produced
\* is the set of the admitted messages, the message depends on each of them
\* and, when the threshold covers the weight of every equivocating sender, no
\* message of new_msgs equivocates with it
C29_ErrorIffNoneAdmittedOrEstimatorError ==
    from_call # <<>> =>
        /\ from_call.result = <<>> <=> (NoneAdmitted \/ EstimatorFailed)
        /\ ProducedFromAdmitted

\* a call given two messages of its sender that equivocate, both admitted
\* under a threshold that covers the sender, on a State that already held
\* messages
C29_Witness ==
    /\ from_call # <<>>
    /\ from_call.result # <<>>
    /\ from_count = MaxCalls
    /\ ThresholdCovers
    /\ \E x, y \in from_call.admitted :
            /\ x.sender = from_call.sender
            /\ equivocates(x, y)

-----------------------------------------------------------------------------
(* Properties of Weights *)

\* the validators of a map whose weight is a number strictly above zero
StrictlyPositive(map) ==
    {v \in DOMAIN map : map[v] # <<>> /\ map[v][1] > 0}

\* the sum of the weights of the validators S of a map, none of them NAN
RECURSIVE FiniteSum(_, _)
FiniteSum(map, S) ==
    IF S = {} THEN 0
    ELSE LET v == CHOOSE x \in S : TRUE
         IN  map[v][1] + FiniteSum(map, S \ {v})

SumOfWeights(map, S) ==
    IF \E v \in S : map[v][1] = INFINITY THEN <<INFINITY>>
    ELSE <<FiniteSum(map, S)>>

\* C30: validators() returns the validators whose weight is strictly greater
\* than zero (zero and negative weights left out, an unbounded weight kept),
\* sum_all_weights() returns the sum of the weights of those validators, and
\* weight(v) returns NotFound for a validator without entry; none of the three
\* changes the map
C30_WeightsQueries ==
    weights_call # <<>> =>
        /\ weights_call.op = "validators" =>
              /\ weights_call.ret = StrictlyPositive(weights_call.before)
              /\ hash_map = weights_call.before
        /\ weights_call.op = "sum_all_weights" =>
              /\ weights_call.ret = SumOfWeights(weights_call.before,
                                                 StrictlyPositive(weights_call.before))
              /\ hash_map = weights_call.before
        /\ weights_call.op = "weight" =>
              /\ weights_call.arg[1] \notin DOMAIN weights_call.before
                    => weights_call.ret = <<>>
              /\ weights_call.arg[1] \in DOMAIN weights_call.before
                    => weights_call.ret = <<weights_call.before[weights_call.arg[1]]>>
              /\ hash_map = weights_call.before

\* validators() called on a map with a zero, a negative and an unbounded weight
C30_Witness ==
    /\ weights_call # <<>>
    /\ weights_call.op = "validators"
    /\ DOMAIN weights_call.before = WeightsValidators
    /\ {weights_call.before[v] : v \in WeightsValidators}
         = {<<0>>, <<-1>>, <<INFINITY>>}
    /\ Cardinality(weights_call.ret) = 1

-----------------------------------------------------------------------------
(* Properties of LatestMsgs *)

\* C31: update(m) returns true if and only if the call changed the map, in
\* every state reached by a sequence of calls of update
C31_UpdateTrueIffChanged ==
    lm_update # <<>> =>
        (lm_update.ret <=> lm_latest_msgs # lm_update.before)

\* from(j) returned: the queue is empty
FromReturned == lm_j # <<>> /\ lm_queue = <<>>

\* the messages of a set and everything reachable through justifications
RECURSIVE Closure(_)
Closure(S) ==
    LET below == S \cup UNION {m.justification : m \in S}
    IN  IF below = S THEN S ELSE Closure(below)

\* validator -> its messages of C that no other of its messages of C depends on
TipsOf(C) ==
    [v \in {m.sender : m \in C} |->
        {m \in C : /\ m.sender = v
                   /\ ~\E n \in C : n.sender = v /\ n # m /\ depends(n, m)}]

\* C32: LatestMsgs::from(j) maps each validator that sent a message in the
\* transitive closure of j to exactly its messages of the closure that no
\* other of its messages of the closure depends on, and no validator of the
\* closure is missing
C32_FromYieldsTipsOfClosure ==
    FromReturned => lm_latest_msgs = TipsOf(Closure(Range(lm_j[1])))

\* C33: LatestMsgs::from gives the same result for two justifications that
\* hold the same set of messages inserted in different orders
C33_FromIndependentOfOrder ==
    FromReturned =>
        \A other \in KeyOrders(Range(lm_j[1])) :
            LatestMsgs_from(other) = lm_latest_msgs

\* C37: LatestMsgs::from(j) terminates: the queue eventually empties
C37_FromTerminates == <>(lm_queue = <<>>)

\* from(j) returned after it went through the justification of a message of j
\* down to a message of a validator that has no message in j
C37_Witness ==
    /\ FromReturned
    /\ \E v \in DOMAIN lm_latest_msgs : \A m \in Range(lm_j[1]) : m.sender # v

-----------------------------------------------------------------------------
(* Properties of depends under parallel workers *)

\* the call returned: a worker found rhs, or no worker is left
ParReturned ==
    /\ par_call # <<>>
    /\ \/ par_found
       \/ \A m \in DagMessages : par_filter[m] = 0 /\ par_any[m] = 0

\* C36: within one call of depends, under every interleaving of the workers
\* that share the visited set, recurse goes through the justification of each
\* message at most once, and the value returned is the one of the sequential
\* traversal
C36_TraversedOnceSameResult ==
    par_call # <<>> =>
        /\ \A m \in DagMessages : par_traversed[m] <= 1
        /\ ParReturned => (par_found <=> depends(par_call[1], par_call[2]))

-----------------------------------------------------------------------------
(* Properties of the State that faulty_insert and faulty_inserts build *)

\* the validators that have more than one message in latest_msgs
SeveralTips(st) ==
    {v \in DOMAIN st.latest_msgs : Cardinality(st.latest_msgs[v]) > 1}

\* C38: in every state reached from the empty State by faulty_insert and
\* faulty_inserts alone, a validator that has more than one message in
\* latest_msgs is in equivocators: a validator outside equivocators has at
\* most one latest message
C38_SeveralTipsAreEquivocators ==
    SeveralTips(state) \subseteq state.equivocators

\* a validator has two latest messages and is in equivocators while another
\* has one latest message and is not
C38_Witness ==
    /\ SeveralTips(state) # {}
    /\ \E v \in DOMAIN state.latest_msgs :
            /\ v \notin state.equivocators
            /\ Cardinality(state.latest_msgs[v]) = 1

-----------------------------------------------------------------------------
(* Properties of the Weights shared by two States *)

\* a HashMap of the States with its weights as the values of U
WeightUnitsOf(weights) == [validator \in DOMAIN weights |-> <<weights[validator]>>]

\* the HashMap the State of holder reads
WeightsOf(holder) == WeightUnitsOf(sh_arcs[sh_states[holder].validators_weights])

\* Ok(weight) of Weights::weight
WeightOk(weight) == << <<weight>> >>

\* C40: Weights is a handle on one shared map.  After faulty_insert_with_slash
\* set the weight of an equivocating sender to 0 through one State, every State
\* that holds a clone of the same Weights reads weight 0 for that sender and
\* does not list it in validators(); faulty_insert and State::update change no
\* weight.
C40_SharedWeights ==
    sh_last # <<>> =>
        /\ (sh_last.op = "faulty_insert_with_slash" /\ sh_last.is_equivocation) =>
              \A holder \in Holders :
                  /\ Weights_weight(WeightsOf(holder), sh_last.msg.sender) = WeightOk(0)
                  /\ sh_last.msg.sender \notin Weights_validators(WeightsOf(holder))
        /\ sh_last.op \in {"faulty_insert", "update"} => sh_arcs = sh_last.arcs

\* the first State slashed a sender that had a positive weight, and the second
\* State reads 0
C40_Witness ==
    /\ sh_last # <<>>
    /\ sh_last.op = "faulty_insert_with_slash"
    /\ sh_last.is_equivocation
    /\ sh_last.holder = 1
    /\ sh_last.msg.sender \in
           Weights_validators(WeightUnitsOf(sh_last.arcs[sh_states[2].validators_weights]))
    /\ Weights_weight(WeightsOf(2), sh_last.msg.sender) = WeightOk(0)

====
